---- MODULE Spec2Model ----
(***************************************************************************)
(* Model of the Gmail auto-responder in functions/auto_reply/main.py:      *)
(* the eligibility filter (is_email_allowed, is_email_recent), the         *)
(* duplicate-reply guard (has_auto_reply_label, the thread scan of         *)
(* send_reply, add_auto_reply_label), process_message and the tiered       *)
(* change fetch of process_new_messages, run by concurrent handlers        *)
(* against one shared mailbox.                                             *)
(*                                                                         *)
(* Python strings are sequences of one-character strings.                  *)
(***************************************************************************)
EXTENDS Integers, Sequences, FiniteSets, TLC

(***************************************************************************)
(* String helpers (the Python str operations the code uses).               *)
(***************************************************************************)

\* str.lower() on one character
LowerChar(c) ==
    CASE c = "A" -> "a" [] c = "B" -> "b" [] c = "C" -> "c" [] c = "D" -> "d"
      [] c = "E" -> "e" [] c = "F" -> "f" [] c = "G" -> "g" [] c = "H" -> "h"
      [] c = "I" -> "i" [] c = "J" -> "j" [] c = "K" -> "k" [] c = "L" -> "l"
      [] c = "M" -> "m" [] c = "N" -> "n" [] c = "O" -> "o" [] c = "P" -> "p"
      [] c = "Q" -> "q" [] c = "R" -> "r" [] c = "S" -> "s" [] c = "T" -> "t"
      [] c = "U" -> "u" [] c = "V" -> "v" [] c = "W" -> "w" [] c = "X" -> "x"
      [] c = "Y" -> "y" [] c = "Z" -> "z" [] OTHER -> c

\* str.lower()
Lower(s) == [i \in 1..Len(s) |-> LowerChar(s[i])]

\* s[i:] starts with sub (i is 1-based)
MatchAt(sub, s, i) ==
    /\ i + Len(sub) - 1 <= Len(s)
    /\ \A k \in 1..Len(sub) : s[i + k - 1] = sub[k]

\* Python `sub in s`
Contains(sub, s) == \E i \in 1..(Len(s) + 1) : MatchAt(sub, s, i)

\* index of the first occurrence of the one-character string c in s, 0 if none
IndexOf(c, s) ==
    IF \E i \in 1..Len(s) : s[i] = c
    THEN CHOOSE i \in 1..Len(s) : s[i] = c /\ \A j \in 1..(i - 1) : s[j] # c
    ELSE 0

\* index of the last occurrence of c in s, 0 if none
LastIndexOf(c, s) ==
    IF \E i \in 1..Len(s) : s[i] = c
    THEN CHOOSE i \in 1..Len(s) : s[i] = c /\ \A j \in (i + 1)..Len(s) : s[j] # c
    ELSE 0

\* s.split(c)[0]
SplitFirst(c, s) ==
    IF IndexOf(c, s) = 0 THEN s ELSE SubSeq(s, 1, IndexOf(c, s) - 1)

\* c.join(s.split(c)[1:]) : everything after the first c (empty if no c)
AfterFirst(c, s) ==
    IF IndexOf(c, s) = 0 THEN <<>> ELSE SubSeq(s, IndexOf(c, s) + 1, Len(s))

\* s.split(c)[1], for s containing c
SplitSecond(c, s) == SplitFirst(c, AfterFirst(c, s))

\* s.split(c)[-1]
SplitLast(c, s) == SubSeq(s, LastIndexOf(c, s) + 1, Len(s))

IsSpace(c) == c \in {" ", "\t", "\n", "\r"}

RECURSIVE LStrip(_)
LStrip(s) == IF s # <<>> /\ IsSpace(Head(s)) THEN LStrip(Tail(s)) ELSE s

RECURSIVE RStrip(_)
RStrip(s) ==
    IF s # <<>> /\ IsSpace(s[Len(s)]) THEN RStrip(SubSeq(s, 1, Len(s) - 1)) ELSE s

\* str.strip()
Strip(s) == RStrip(LStrip(s))

\* str.count(sub): non-overlapping occurrences, scanning from position i
RECURSIVE CountFrom(_, _, _)
CountFrom(sub, s, i) ==
    IF i + Len(sub) - 1 > Len(s) THEN 0
    ELSE IF MatchAt(sub, s, i) THEN 1 + CountFrom(sub, s, i + Len(sub))
    ELSE CountFrom(sub, s, i + 1)

Count(sub, s) == CountFrom(sub, s, 1)

\* sum of f over 1..n
RECURSIVE SumTo(_, _)
SumTo(f, n) == IF n = 0 THEN 0 ELSE f[n] + SumTo(f, n - 1)

(***************************************************************************)
(* Configuration (module-level constants of main.py).                      *)
(***************************************************************************)

ALLOWED_EMAIL_ADDRESS ==
    <<"a","d","d","h","e",".","w","a","r","m","a","n","+","c","s","@",
      "g","m","a","i","l",".","c","o","m">>

MAX_EMAIL_AGE_HOURS == 24

\* whitelist of sender domains; empty in the source
ALLOWED_SENDERS == <<>>

\* name of the reply-marker label
AUTO_REPLY_LABEL == "Auto-Replied"

\* milliseconds of MAX_EMAIL_AGE_HOURS (timedelta(hours=...))
MaxAgeMs == MAX_EMAIL_AGE_HOURS * 3600 * 1000

reply_indicators == << <<"r","e",":">>, <<"f","w",":">>, <<"f","w","d",":">> >>

auto_reply_indicators ==
    << <<"a","u","t","o","-","r","e","p","l","y">>,
       <<"a","u","t","o","m","a","t","i","c"," ","r","e","p","l","y">>,
       <<"a","u","t","o"," ","r","e","p","l","y">>,
       <<"o","u","t"," ","o","f"," ","o","f","f","i","c","e">>,
       <<"a","u","t","o","m","a","t","e","d"," ","r","e","s","p","o","n","s","e">>,
       <<"d","o"," ","n","o","t"," ","r","e","p","l","y">>,
       <<"n","o","r","e","p","l","y">>,
       <<"n","o","-","r","e","p","l","y">>,
       <<"m","a","i","l","e","r","-","d","a","e","m","o","n">>,
       <<"m","a","i","l"," ","d","e","l","i","v","e","r","y">>,
       <<"d","e","l","i","v","e","r","y"," ","s","t","a","t","u","s">>,
       <<"d","e","l","i","v","e","r","y"," ","f","a","i","l","u","r","e">>,
       <<"u","n","d","e","l","i","v","e","r","a","b","l","e">>,
       <<"r","e","t","u","r","n","e","d"," ","m","a","i","l">> >>

spam_keywords ==
    << <<"v","i","a","g","r","a">>,
       <<"c","a","s","i","n","o">>,
       <<"l","o","t","t","e","r","y">>,
       <<"w","i","n","n","e","r">>,
       <<"u","r","g","e","n","t">>,
       <<"c","l","i","c","k"," ","h","e","r","e">>,
       <<"f","r","e","e"," ","m","o","n","e","y">> >>

(***************************************************************************)
(* Message Eligibility Filter.                                             *)
(***************************************************************************)

Verdict(a, r) == [allowed |-> a, reason |-> r]

\* the addressing rule matching the primary account without its "+cs" tag
AddressedToAlias_IgnoringTag(email_data) ==
    Contains(Lower(SplitFirst("+", ALLOWED_EMAIL_ADDRESS)), Lower(email_data.to))

\* rule 1 of is_email_allowed: the To header contains the alias
\* (case-insensitive substring)
AddressedToAlias(email_data) ==
    Contains(Lower(ALLOWED_EMAIL_ADDRESS), Lower(email_data.to))

\* the reason of the first auto-reply header rule of is_email_allowed that
\* rejects email_data, "" when none does
AutoReplyHeaderReason(email_data) ==
    LET auto_submitted == Lower(email_data.auto_submitted)
        x_auto_response_suppress == Lower(email_data.x_auto_response_suppress)
        precedence == Lower(email_data.precedence)
        x_autoreply == Lower(email_data.x_autoreply)
        x_autorespond == Lower(email_data.x_autorespond)
    IN  IF auto_submitted # <<>> /\ auto_submitted # <<"n","o">>
        THEN "Email is an automatic reply (auto-submitted header)"
        ELSE IF x_auto_response_suppress # <<>>
        THEN "Email is an automatic reply (x-auto-response-suppress header)"
        ELSE IF precedence \in { <<"b","u","l","k">>,
                                 <<"a","u","t","o","_","r","e","p","l","y">>,
                                 <<"j","u","n","k">> }
        THEN "Email is an automatic reply (precedence header)"
        ELSE IF x_autoreply # <<>> \/ x_autorespond # <<>>
        THEN "Email is an automatic reply (explicit header)"
        ELSE ""

\* the header rules looking at Auto-Submitted alone
HasAutoReplyHeaders_AutoSubmittedOnly(email_data) ==
    /\ Lower(email_data.auto_submitted) # <<>>
    /\ Lower(email_data.auto_submitted) # <<"n","o">>

\* the auto-reply header rules of is_email_allowed reject email_data
HasAutoReplyHeaders(email_data) == AutoReplyHeaderReason(email_data) # ""

\* the number of rules of is_email_allowed, counted in the order of the code:
\* 1 addressing, 2 From contains the alias, 3 display-name match, 4 sender
\* equals recipient, 5 reply markers in Subject, 6 auto-reply headers,
\* 7 content phrases, 8 domain whitelist, 9 spam keywords
RuleCount == 9

\* the condition under which rule i of is_email_allowed rejects email_data
RuleFails(i, email_data, allowed_senders) ==
    LET to_address == Lower(email_data.to)
        from_address == Lower(email_data.from)
        bracketed == Contains(<<"<">>, from_address) /\ Contains(<<">">>, from_address)
        subject == Lower(email_data.subject)
        body == Lower(email_data.body)
    IN  CASE i = 1 -> ~Contains(Lower(ALLOWED_EMAIL_ADDRESS), to_address)
          [] i = 2 -> Contains(Lower(ALLOWED_EMAIL_ADDRESS), from_address)
          [] i = 3 -> Contains(Lower(SplitFirst("@", ALLOWED_EMAIL_ADDRESS)),
                               IF bracketed
                               THEN Lower(Strip(SplitFirst("<", from_address)))
                               ELSE from_address)
          [] i = 4 -> LET sender_email ==
                              IF bracketed
                              THEN Lower(SplitFirst(">", SplitSecond("<", from_address)))
                              ELSE from_address
                      IN  sender_email # <<>> /\ to_address # <<>>
                          /\ Contains(sender_email, to_address)
          [] i = 5 -> Count(<<"r","e",":">>, subject) + Count(<<"f","w",":">>, subject)
                      + Count(<<"f","w","d",":">>, subject) >= 2
          [] i = 6 -> AutoReplyHeaderReason(email_data) # ""
          [] i = 7 -> \E k \in 1..Len(auto_reply_indicators) :
                         \/ Contains(auto_reply_indicators[k], subject)
                         \/ Contains(auto_reply_indicators[k], body)
          [] i = 8 -> /\ allowed_senders # <<>>
                      /\ LET sender_domain ==
                                 IF Contains(<<"@">>, from_address)
                                 THEN Lower(SplitLast("@", from_address)) ELSE <<>>
                         IN  ~\E k \in 1..Len(allowed_senders) :
                                 Contains(Lower(allowed_senders[k]), sender_domain)
          [] i = 9 -> \E k \in 1..Len(spam_keywords) :
                         \/ Contains(spam_keywords[k], subject)
                         \/ Contains(spam_keywords[k], body)

\* the reason rule i reports when it rejects email_data
RuleReason(i, email_data) ==
    CASE i = 1 -> "Email not sent to allowed address"
      [] i = 2 -> "Email is from our own system"
      [] i = 3 -> "Email is likely from our system (name match)"
      [] i = 4 -> "Email is a potential reply loop (sender to self)"
      [] i = 5 -> "Email has multiple reply indicators in subject"
      [] i = 6 -> AutoReplyHeaderReason(email_data)
      [] i = 7 -> "Email is an automatic reply (content indicators)"
      [] i = 8 -> "Sender domain not allowed"
      [] i = 9 -> "Email contains spam keywords"

\* the verdict of the rules taken in the order given by the sequence order
VerdictInOrder(order, email_data, allowed_senders) ==
    LET failing == {k \in 1..Len(order) :
                       RuleFails(order[k], email_data, allowed_senders)}
    IN  IF failing = {} THEN Verdict(TRUE, "Email allowed")
        ELSE Verdict(FALSE,
                     RuleReason(order[CHOOSE k \in failing :
                                          \A j \in failing : k <= j], email_data))

\* is_email_allowed with the spam keywords looked at before every other rule
is_email_allowed_for_SpamFirst(email_data, allowed_senders) ==
    VerdictInOrder(<<9, 1, 2, 3, 4, 5, 6, 7, 8>>, email_data, allowed_senders)

\* is_email_allowed with the whitelist of sender domains as a parameter: the
\* rules in the order of the code, the first failing one decides the reason
is_email_allowed_for(email_data, allowed_senders) ==
    LET to_address == Lower(email_data.to)
        from_address == Lower(email_data.from)
        from_name ==
            IF Contains(<<"<">>, from_address) /\ Contains(<<">">>, from_address)
            THEN Lower(Strip(SplitFirst("<", from_address)))
            ELSE from_address
        system_name == Lower(SplitFirst("@", ALLOWED_EMAIL_ADDRESS))
        sender_email ==
            IF Contains(<<"<">>, from_address) /\ Contains(<<">">>, from_address)
            THEN Lower(SplitFirst(">", SplitSecond("<", from_address)))
            ELSE from_address
        subject == Lower(email_data.subject)
        body == Lower(email_data.body)
        reply_count ==
            SumTo([i \in 1..Len(reply_indicators) |-> Count(reply_indicators[i], subject)],
                  Len(reply_indicators))
        sender_domain ==
            IF Contains(<<"@">>, from_address)
            THEN Lower(SplitLast("@", from_address)) ELSE <<>>
    IN  IF ~AddressedToAlias(email_data)
        THEN Verdict(FALSE, "Email not sent to allowed address")
        ELSE IF Contains(Lower(ALLOWED_EMAIL_ADDRESS), from_address)
        THEN Verdict(FALSE, "Email is from our own system")
        ELSE IF Contains(system_name, from_name)
        THEN Verdict(FALSE, "Email is likely from our system (name match)")
        ELSE IF sender_email # <<>> /\ to_address # <<>>
                /\ Contains(sender_email, to_address)
        THEN Verdict(FALSE, "Email is a potential reply loop (sender to self)")
        ELSE IF reply_count >= 2
        THEN Verdict(FALSE, "Email has multiple reply indicators in subject")
        ELSE IF HasAutoReplyHeaders(email_data)
        THEN Verdict(FALSE, AutoReplyHeaderReason(email_data))
        ELSE IF \E i \in 1..Len(auto_reply_indicators) :
                    \/ Contains(auto_reply_indicators[i], Lower(subject))
                    \/ Contains(auto_reply_indicators[i], Lower(body))
        THEN Verdict(FALSE, "Email is an automatic reply (content indicators)")
        ELSE IF allowed_senders # <<>>
                /\ ~\E i \in 1..Len(allowed_senders) :
                        Contains(Lower(allowed_senders[i]), sender_domain)
        THEN Verdict(FALSE, "Sender domain not allowed")
        ELSE IF \E i \in 1..Len(spam_keywords) :
                    \/ Contains(spam_keywords[i], subject)
                    \/ Contains(spam_keywords[i], body)
        THEN Verdict(FALSE, "Email contains spam keywords")
        ELSE Verdict(TRUE, "Email allowed")

\* is_email_allowed(email_data), with the whitelist of the configuration
is_email_allowed(email_data) == is_email_allowed_for(email_data, ALLOWED_SENDERS)

\* datetime.now() as epoch milliseconds plus the microseconds within the
\* millisecond
Clock(ms, us) == [ms |-> ms, us |-> us]

\* is_email_recent with a window that excludes the cutoff itself
is_email_recent_Exclusive(internalDate, clock) ==
    IF ~internalDate.parses THEN FALSE
    ELSE ~(\/ internalDate.ms < clock.ms - MaxAgeMs
           \/ internalDate.ms = clock.ms - MaxAgeMs)

\* is_email_recent: internalDate is [parses, ms] (int() raises when it does not
\* parse, and the message is rejected).  email_time has whole milliseconds;
\* cutoff_time = clock - MAX_EMAIL_AGE_HOURS keeps the microseconds of the
\* clock, and the message is rejected when email_time < cutoff_time.
is_email_recent(internalDate, clock) ==
    IF ~internalDate.parses THEN FALSE
    ELSE ~(\/ internalDate.ms < clock.ms - MaxAgeMs
           \/ (internalDate.ms = clock.ms - MaxAgeMs /\ 0 < clock.us))

(***************************************************************************)
(* Mailbox content.  A message of the mailbox is                           *)
(*   [headers, multipart, parts, bodyData, internalDate, threadId]         *)
(* as users().messages().get(format='full') returns it; its labelIds are   *)
(* mailbox state (msgLabels).  Kinds names the inbound messages the        *)
(* mailbox is populated from.                                              *)
(***************************************************************************)

Hdr(n, v) == [name |-> n, value |-> v]

H_To == <<"T","o">>
H_From == <<"F","r","o","m">>
H_Subject == <<"S","u","b","j","e","c","t">>
H_AutoSubmitted == <<"A","u","t","o","-","S","u","b","m","i","t","t","e","d">>
H_Precedence == <<"P","r","e","c","e","d","e","n","c","e">>
H_ReplyTo == <<"R","e","p","l","y","-","T","o">>
H_XAutoResponseSuppress ==
    <<"X","-","A","u","t","o","-","R","e","s","p","o","n","s","e","-","S","u","p","p","r","e","s","s">>
H_XAutoReply == <<"X","-","A","u","t","o","R","e","p","l","y">>
H_InReplyTo == <<"I","n","-","R","e","p","l","y","-","T","o">>
H_References == <<"R","e","f","e","r","e","n","c","e","s">>
H_to == <<"t","o">>
H_subject == <<"s","u","b","j","e","c","t">>
H_XAutorespond == <<"X","-","A","u","t","o","r","e","s","p","o","n","d">>

S_Budi == <<"B","u","d","i"," ","<","b","u","d","i","@","e","x","a","m","p","l","e",".","c","o","m",">">>
S_AliasMixedCase ==
    <<"C","S"," ","<","A","d","d","h","e",".","W","a","r","m","a","n","+","C","S","@",
      "G","m","a","i","l",".","c","o","m",">">>
S_PrimaryAccount ==
    <<"a","d","d","h","e",".","w","a","r","m","a","n","@","g","m","a","i","l",".","c","o","m">>
S_Other == <<"i","n","f","o","@","e","x","a","m","p","l","e",".","c","o","m">>
S_TanyaSaldo == <<"T","a","n","y","a"," ","s","a","l","d","o">>
S_ReRePromo == <<"R","e",":"," ","R","e",":"," ","p","r","o","m","o">>
S_Halo == <<"H","a","l","o">>
S_AutoReplied == <<"a","u","t","o","-","r","e","p","l","i","e","d">>
S_Bulk == <<"b","u","l","k">>
S_BulkCapital == <<"B","u","l","k">>
S_All == <<"A","l","l">>
S_Yes == <<"y","e","s">>
S_AutoReplyPrecedence == <<"a","u","t","o","_","r","e","p","l","y">>
S_RePrefix == <<"R","e",":"," ">>
S_No == <<"n","o">>
S_AliasAndBudi ==
    <<"a","d","d","h","e",".","w","a","r","m","a","n","+","c","s","@","g","m","a","i","l",".","c","o","m",","," ","b","u","d","i","@","e","x","a","m","p","l","e",".","c","o","m">>
S_NameMatch ==
    <<"A","d","d","h","e",".","W","a","r","m","a","n","+","C","S"," ","T","e","a","m"," ","<","b","o","t","@","e","x","a","m","p","l","e",".","c","o","m",">">>
S_AniGmail == <<"A","n","i"," ","<","a","n","i","@","g","m","a","i","l",".","c","o","m",">">>
S_ReFwdOutOfOffice ==
    <<"R","e",":"," ","F","w","d",":"," ","O","u","t"," ","o","f"," ","O","f","f","i","c","e"," ","-"," ","U","R","G","E","N","T">>
S_OutOfOffice == <<"O","u","t"," ","o","f"," ","o","f","f","i","c","e">>
S_Winner == <<"Y","o","u"," ","a","r","e"," ","a"," ","W","I","N","N","E","R">>
S_ClickHere == <<"C","l","i","c","k"," ","h","e","r","e"," ","f","o","r"," ","f","r","e","e"," ","m","o","n","e","y">>
S_GmailDomain == <<"g","m","a","i","l",".","c","o","m">>
S_ReTanyaSaldo == <<"R","e",":"," ","T","a","n","y","a"," ","s","a","l","d","o">>
S_REUpperTanyaSaldo == <<"R","E",":"," ","T","a","n","y","a"," ","s","a","l","d","o">>
S_ReplyText == <<"R","e","p","l","y"," ","t","e","x","t">>
S_QuotedLine == <<">"," ","q","u","o","t","e","d"," ","l","i","n","e">>
S_IndentedQuote == <<" "," ",">"," ","i","n","d","e","n","t","e","d"," ","q","u","o","t","e">>
S_OnMonWrote == <<"O","n"," ","M","o","n",","," ","3"," ","N","o","v"," ","2","0","2","5"," ","B","u","d","i"," ","w","r","o","t","e",":">>
S_OldStuff == <<"o","l","d"," ","s","t","u","f","f"," ">>
S_ForwardedMarker ==
    <<"-","-","-","-","-","-","-","-"," ","F","o","r","w","a","r","d","e","d"," ","m","e","s","s","a","g","e"," ","-","-","-","-","-","-","-","-">>
S_QuotedForwardedMarker ==
    <<">"," ","-","-","-","-","-","-","-","-"," ","F","o","r","w","a","r","d","e","d"," ","m","e","s","s","a","g","e"," ","-","-","-","-","-","-","-","-">>
S_FromLine == <<" ","F","r","o","m",":"," ","b","u","d","i","@","e","x","a","m","p","l","e",".","c","o","m">>
S_FromNoAddress == <<"F","r","o","m",":"," ","t","h","e"," ","b","a","n","k">>
S_TextPlain == <<"t","e","x","t","/","p","l","a","i","n">>
S_TextHtml == <<"t","e","x","t","/","h","t","m","l">>

\* PRIMARY_FROM, the primary account address (environment; used when
\* USE_PRIMARY_FROM is set)
PRIMARY_FROM == S_PrimaryAccount

\* the clock at the start (epoch ms) and the two message dates used
Now0 == 100000000
RecentDate == [parses |-> TRUE, ms |-> Now0 - 3600000]
OldDate == [parses |-> TRUE, ms |-> Now0 - MaxAgeMs - 1]

Kinds == {"good", "notalias", "notalias_loop", "noto", "labelled", "old", "read", "rere",
          "from_alias", "auto_submitted", "auto_submitted_no", "suppress",
          "precedence", "x_autoreply", "x_autorespond"}

\* the inbound message of kind k
RawMessage(k) ==
    LET base == [headers |-> << Hdr(H_From, S_Budi), Hdr(H_To, S_AliasMixedCase),
                               Hdr(H_Subject, S_TanyaSaldo) >>,
                 multipart |-> TRUE,
                 parts |-> << [mimeType |-> S_TextHtml, data |-> S_Bulk],
                              [mimeType |-> S_TextPlain, data |-> S_Halo] >>,
                 bodyData |-> <<>>,
                 internalDate |-> RecentDate]
    IN  CASE k = "notalias" ->
               [base EXCEPT !.headers = << Hdr(H_From, S_Budi), Hdr(H_To, S_PrimaryAccount),
                                           Hdr(H_Subject, S_TanyaSaldo) >>]
          [] k = "notalias_loop" ->
               [base EXCEPT !.headers = << Hdr(H_From, ALLOWED_EMAIL_ADDRESS),
                                           Hdr(H_To, S_Other),
                                           Hdr(H_Subject, S_ReRePromo),
                                           Hdr(H_AutoSubmitted, S_AutoReplied),
                                           Hdr(H_Precedence, S_Bulk) >>,
                            !.multipart = FALSE, !.bodyData = S_Halo]
          [] k = "noto" ->
               [base EXCEPT !.headers = << Hdr(H_From, S_Budi),
                                           Hdr(H_Subject, S_TanyaSaldo) >>]
          [] k = "old" -> [base EXCEPT !.internalDate = OldDate]
          [] k = "rere" ->
               [base EXCEPT !.headers = << Hdr(H_From, S_Budi), Hdr(H_To, S_AliasMixedCase),
                                           Hdr(H_Subject, S_ReRePromo) >>]
          [] k = "from_alias" ->
               [base EXCEPT !.headers = << Hdr(H_From, S_AliasMixedCase),
                                           Hdr(H_To, S_AliasMixedCase),
                                           Hdr(H_Subject, S_TanyaSaldo) >>]
          [] k = "auto_submitted" ->
               [base EXCEPT !.headers = base.headers \o << Hdr(H_AutoSubmitted, S_AutoReplied) >>]
          [] k = "auto_submitted_no" ->
               [base EXCEPT !.headers = base.headers \o << Hdr(H_AutoSubmitted, S_No) >>]
          [] k = "suppress" ->
               [base EXCEPT !.headers = base.headers \o << Hdr(H_XAutoResponseSuppress, S_All) >>]
          [] k = "precedence" ->
               [base EXCEPT !.headers = base.headers \o << Hdr(H_Precedence, S_BulkCapital) >>]
          [] k = "x_autoreply" ->
               [base EXCEPT !.headers = base.headers \o << Hdr(H_XAutoReply, S_Yes) >>]
          [] k = "x_autorespond" ->
               [base EXCEPT !.headers = base.headers \o << Hdr(H_XAutorespond, S_Yes) >>]
          [] OTHER -> base

\* the label id the mailbox gives the reply-marker label when it is created
AutoLabelId == "Label_1"

\* labelIds of an inbound message of kind k when it arrives
InitialLabels(k) ==
    CASE k = "labelled" -> {"INBOX", "UNREAD", AutoLabelId}
      [] k = "read" -> {"INBOX"}
      [] OTHER -> {"INBOX", "UNREAD"}

\* value of the last header whose lower-cased name is lname, '' if none
HeaderValue(headers, lname) ==
    LET idx == {i \in 1..Len(headers) : Lower(headers[i].name) = lname}
    IN  IF idx = {} THEN <<>>
        ELSE headers[CHOOSE i \in idx : \A j \in idx : j <= i].value

\* extract_email_data(message)
extract_email_data(message) ==
    LET reply_to == HeaderValue(message.headers, <<"r","e","p","l","y","-","t","o">>)
        from == HeaderValue(message.headers, <<"f","r","o","m">>)
        plain == {i \in 1..Len(message.parts) : message.parts[i].mimeType = S_TextPlain}
    IN  [subject |-> HeaderValue(message.headers, <<"s","u","b","j","e","c","t">>),
         from |-> from,
         to |-> HeaderValue(message.headers, <<"t","o">>),
         reply_to |-> IF reply_to = <<>> THEN from ELSE reply_to,
         auto_submitted |->
             HeaderValue(message.headers,
                         <<"a","u","t","o","-","s","u","b","m","i","t","t","e","d">>),
         x_auto_response_suppress |->
             HeaderValue(message.headers,
                         <<"x","-","a","u","t","o","-","r","e","s","p","o","n","s","e","-",
                           "s","u","p","p","r","e","s","s">>),
         precedence |-> HeaderValue(message.headers,
                                    <<"p","r","e","c","e","d","e","n","c","e">>),
         x_autoreply |-> HeaderValue(message.headers,
                                     <<"x","-","a","u","t","o","r","e","p","l","y">>),
         x_autorespond |-> HeaderValue(message.headers,
                                       <<"x","-","a","u","t","o","r","e","s","p","o","n","d">>),
         body |-> IF message.multipart
                  THEN IF plain = {} THEN <<>>
                       ELSE message.parts[CHOOSE i \in plain : \A j \in plain : i <= j].data
                  ELSE message.bodyData]

\* the message send_reply composes, with the loop-prevention headers left out
ComposeReply_NoLoopHeaders(email_data, sender, response_text) ==
    [headers |-> << Hdr(H_to, email_data.reply_to),
                    Hdr(H_subject, S_RePrefix \o email_data.subject),
                    Hdr(H_From, sender),
                    Hdr(H_ReplyTo, ALLOWED_EMAIL_ADDRESS) >>,
     multipart |-> TRUE,
     parts |-> << [mimeType |-> S_TextPlain, data |-> response_text] >>,
     bodyData |-> <<>>,
     internalDate |-> RecentDate]

\* the message send_reply composes for email_data, sent From sender, as the
\* mailbox of its recipient returns it (In-Reply-To and References carry the
\* id of the original, which no reader of this model looks at)
ComposeReply(email_data, sender, response_text) ==
    [headers |-> << Hdr(H_to, email_data.reply_to),
                    Hdr(H_subject, S_RePrefix \o email_data.subject),
                    Hdr(H_From, sender),
                    Hdr(H_ReplyTo, ALLOWED_EMAIL_ADDRESS),
                    Hdr(H_InReplyTo, <<>>),
                    Hdr(H_References, <<>>),
                    Hdr(H_AutoSubmitted, S_AutoReplied),
                    Hdr(H_XAutoResponseSuppress, S_All),
                    Hdr(H_Precedence, S_AutoReplyPrecedence),
                    Hdr(H_XAutoReply, S_Yes) >>,
     multipart |-> TRUE,
     parts |-> << [mimeType |-> S_TextPlain, data |-> response_text] >>,
     bodyData |-> <<>>,
     internalDate |-> RecentDate]

(***************************************************************************)
(* State.                                                                  *)
(***************************************************************************)

\* bounds of the model
MaxRuns == 2       \* notifications handled in one behaviour
MaxInbound == 1    \* inbound messages in the mailbox
MaxFaults == 1     \* failing calls in one behaviour of concurrent handlers

Handlers == {"h1", "h2"}
InboundNames == <<"m1", "m2", "m3">>
Threads == {"t1", "t2"}

\* a message id is <<name, k>>: k = 0 for the inbound message, k >= 1 for the
\* k-th reply the system sent to it
Inbound == {<<InboundNames[i], 0>> : i \in 1..MaxInbound}

VARIABLES
    msgKind,          \* inbound message id -> kind (its content, never changed)
    msgThread,        \* inbound message id -> threadId
    msgLabels,        \* message id -> labelIds, for every message of the mailbox
    labelExists,      \* the label catalog holds AUTO_REPLY_LABEL
    history,          \* the mailbox's change history: records, oldest first
    now,              \* the clock, epoch ms
    USE_PRIMARY_FROM, \* configuration: send with PRIMARY_FROM as From
    sendCalls,        \* inbound message id -> send-message calls issued for it
    handler,          \* handler -> its locals and position
    runs,             \* historyIds of the notifications handled so far, in start order
    faults,           \* calls that failed so far, where the specification bounds them
    call,             \* a function called on its own: [fn, arguments]
    ret               \* what that call returned: [fn, value]

vars == <<msgKind, msgThread, msgLabels, labelExists, history, now,
          USE_PRIMARY_FROM, sendCalls, handler, runs, faults, call, ret>>

\* what no step of a notification handler changes
mailboxContent == <<msgKind, msgThread, now, USE_PRIMARY_FROM, call, ret>>

NoCall == [fn |-> "none"]

NoMsg == <<"none", 0>>

\* a handler between two notifications
IdleHandler ==
    [pc |-> "idle", endpoint |-> "none", status |-> "unset", credentialCalls |-> 0,
     history_id |-> 0, tier |-> 0, queue |-> <<>>,
     processed_ids |-> {}, found_added |-> FALSE, msg_id |-> NoMsg,
     labelIds |-> {}, response_text |-> "unset", sent_message |-> NoMsg,
     send_reply_result |-> "unset",
     \* what the current process_message run has seen and done
     labelledAtStart |-> FALSE, chkExcluded |-> "unset", chkRecent |-> "unset",
     chkLabel |-> "unset", chkAllowed |-> "unset",
     directoryCalls |-> 0, generatorCalls |-> 0, sends |-> 0, sendOk |-> FALSE,
     \* what the current notification run has seen and done
     added |-> <<>>, runSends |-> 0, failed |-> FALSE, eligibleAtStart |-> {},
     tier1 |-> "unset", retry_added |-> FALSE,
     \* the ids process_message was called with, in the order of the calls
     pmCalls |-> <<>>]

Original(id) == <<id[1], 0>>
IsReply(id) == id[2] > 0

\* the replies sent to the inbound message b
Replies(b) == {id \in DOMAIN msgLabels : IsReply(id) /\ Original(id) = b}

\* threadId of a message: a reply is sent into its original's thread
ThreadOf(id) == msgThread[Original(id)]

\* the From address send_reply composes with
from_addr == IF USE_PRIMARY_FROM /\ PRIMARY_FROM # <<>> THEN PRIMARY_FROM
             ELSE ALLOWED_EMAIL_ADDRESS

\* From value the thread scan reads for a message: the first header named
\* exactly 'From', '' if none
ScanFromValue(id) ==
    IF IsReply(id) THEN from_addr
    ELSE LET hs == RawMessage(msgKind[id]).headers
             idx == {i \in 1..Len(hs) : hs[i].name = H_From}
         IN  IF idx = {} THEN <<>>
             ELSE hs[CHOOSE i \in idx : \A j \in idx : i <= j].value

\* thread scan of send_reply: some message of thread t has the alias in From
ThreadHasAliasReply(t) ==
    \E id \in DOMAIN msgLabels :
        ThreadOf(id) = t /\ Contains(ALLOWED_EMAIL_ADDRESS, ScanFromValue(id))

Excluded == {"SENT", "DRAFT", "SPAM", "TRASH"}

\* the metadata pre-filter of the history tiers: INBOX+UNREAD and no excluded label
IncomingUnread(labels) ==
    /\ "INBOX" \in labels /\ "UNREAD" \in labels
    /\ labels \cap Excluded = {}

\* records of history.list(startHistoryId = h).  The record at position i has
\* historyId i + 1 (the mailbox starts at historyId 1) and the call returns
\* the records whose id is greater than h.
HistoryAfter(h) == SubSeq(history, IF h < 1 THEN 1 ELSE h, Len(history))

\* ids of the 'messagesAdded' events of a list of records, in order
RECURSIVE AddedIds(_)
AddedIds(records) ==
    IF records = <<>> THEN <<>>
    ELSE (IF Head(records).kind = "messagesAdded" THEN Head(records).ids ELSE <<>>)
         \o AddedIds(Tail(records))

HasAdded(records) == \E i \in 1..Len(records) : records[i].kind = "messagesAdded"

\* a set of message ids as a sequence, in id order (the order list() returns)
RECURSIVE SeqOfIds(_)
SeqOfIds(S) ==
    IF S = {} THEN <<>>
    ELSE LET first == CHOOSE x \in S :
                 \A y \in S : x[1] = y[1] \/ \E i \in 1..Len(InboundNames) :
                     /\ InboundNames[i] = x[1]
                     /\ \E j \in (i + 1)..Len(InboundNames) : InboundNames[j] = y[1]
         IN  <<first>> \o SeqOfIds(S \ {first})

\* messages.list(labelIds=['INBOX','UNREAD'], maxResults=10)
BackfillList ==
    LET all == SeqOfIds({id \in DOMAIN msgLabels :
                           {"INBOX", "UNREAD"} \subseteq msgLabels[id] /\ ~IsReply(id)})
    IN  SubSeq(all, 1, IF Len(all) < 10 THEN Len(all) ELSE 10)

\* extract_email_data and is_email_allowed on the message of each kind
KindData == [k \in Kinds |-> extract_email_data(RawMessage(k))]
KindVerdict == [k \in Kinds |-> is_email_allowed(KindData[k])]

\* the inbound messages a notification run would reply to if nothing failed
EligibleNow ==
    {b \in Inbound :
        /\ IncomingUnread(msgLabels[b])
        /\ AutoLabelId \notin msgLabels[b]
        /\ is_email_recent(RawMessage(msgKind[b]).internalDate, Clock(now, 0))
        /\ KindVerdict[msgKind[b]].allowed
        /\ ~ThreadHasAliasReply(ThreadOf(b))}

\* the inbound messages the system has replied to and labelled before the
\* behaviour starts
RepliedAtStart == {b \in Inbound : msgKind[b] = "labelled"}

\* the history of the mailbox at the start, from the i-th inbound message on:
\* each message arrived, and those replied to got their reply and their label
RECURSIVE InitialHistory(_)
InitialHistory(i) ==
    IF i > MaxInbound THEN <<>>
    ELSE LET b == <<InboundNames[i], 0>>
         IN  << [kind |-> "messagesAdded", ids |-> <<b>>] >>
             \o (IF b \in RepliedAtStart
                 THEN << [kind |-> "messagesAdded", ids |-> << <<b[1], 1>> >>],
                         [kind |-> "labelsAdded", ids |-> <<b>>] >>
                 ELSE <<>>)
             \o InitialHistory(i + 1)

Init ==
    /\ msgKind \in [Inbound -> Kinds]
    /\ msgThread \in {f \in [Inbound -> Threads] : f[<<"m1", 0>>] = "t1"}
    /\ msgLabels = [id \in Inbound \cup {<<b[1], 1>> : b \in RepliedAtStart} |->
                        IF IsReply(id) THEN {"SENT"} ELSE InitialLabels(msgKind[id])]
    /\ labelExists = (RepliedAtStart # {})
    /\ history = InitialHistory(1)
    /\ now = Now0
    /\ USE_PRIMARY_FROM \in BOOLEAN
    /\ sendCalls = [b \in Inbound |-> 0]
    /\ handler = [p \in Handlers |-> IdleHandler]
    /\ runs = <<>>
    /\ faults = 0
    /\ call = NoCall
    /\ ret = NoCall

(***************************************************************************)
(* process_new_messages: the tiered change fetch.                          *)
(***************************************************************************)

Active(p) == handler[p].pc \notin {"idle", "done"}

Set(p, h) == handler' = [handler EXCEPT ![p] = h]

\* the handler the next notification is dispatched to.  Handlers keep nothing
\* from one notification to the next, so which free one takes it is immaterial:
\* it is the first free one.
FreeHandler ==
    IF \A p \in Handlers : Active(p) THEN "none"
    ELSE CHOOSE p \in Handlers : ~Active(p) /\ (p = "h1" \/ Active("h1"))

\* process_new_messages without the retry with history_id - 1
AfterTier_NoRetry(h) ==
    CASE h.tier = 1 -> IF h.found_added THEN "done" ELSE "backfill_list"
      [] h.tier = 2 -> IF h.found_added THEN "done" ELSE "backfill_list"
      [] OTHER -> "done"

\* process_new_messages without its backfill scan
AfterTier_NoBackfill(h) ==
    CASE h.tier = 1 -> IF h.found_added THEN "done" ELSE "list2"
      [] OTHER -> "done"

\* where process_new_messages goes on once the loop of the current tier has
\* no candidate left
AfterTier(h) ==
    CASE h.tier = 1 -> IF h.found_added THEN "done" ELSE "list2"
      [] h.tier = 2 -> IF h.found_added THEN "done" ELSE "backfill_list"
      [] OTHER -> "done"

\* the loop of the current tier: next candidate, or the next tier
Continue(h) ==
    IF h.queue # <<>> THEN [h EXCEPT !.pc = "meta"]
    ELSE [h EXCEPT !.pc = AfterTier(h)]

\* a candidate passed the pre-filter: process_message(service, id) starts
StartProcessMessage(h, id) ==
    [h EXCEPT !.pc = "pm_get", !.msg_id = id, !.pmCalls = Append(@, id),
              !.labelIds = {}, !.response_text = "unset", !.sent_message = NoMsg,
              !.send_reply_result = "unset",
              !.labelledAtStart = (AutoLabelId \in msgLabels[id]),
              !.chkExcluded = "unset", !.chkRecent = "unset", !.chkLabel = "unset",
              !.chkAllowed = "unset", !.directoryCalls = 0, !.generatorCalls = 0,
              !.sends = 0, !.sendOk = FALSE]

\* a notification with historyId hid reaches handler p: /process decoded it and
\* calls process_new_messages(service, hid)
Start(p, hid) ==
    /\ ~Active(p)
    /\ Len(runs) < MaxRuns
    /\ p = FreeHandler
    /\ runs' = Append(runs, hid)
    /\ Set(p, [IdleHandler EXCEPT !.pc = "connect", !.endpoint = "process",
                                  !.history_id = hid,
                                  !.eligibleAtStart = EligibleNow])
    /\ UNCHANGED <<mailboxContent, msgLabels, labelExists, history, sendCalls>>

\* a request reaches /test-pubsub on handler p (recorded in runs as
\* historyId 0, which no notification carries)
TestStart(p) ==
    /\ ~Active(p)
    /\ Len(runs) < MaxRuns
    /\ p = FreeHandler
    /\ runs' = Append(runs, 0)
    /\ Set(p, [IdleHandler EXCEPT !.pc = "connect", !.endpoint = "test",
                                  !.eligibleAtStart = EligibleNow])
    /\ UNCHANGED <<mailboxContent, msgLabels, labelExists, history, sendCalls>>

\* get_credentials_from_secret_manager() and build('gmail', 'v1', ...): either
\* failing makes the endpoint answer 500
Connect(p, ok) ==
    LET h == handler[p]
        called == [h EXCEPT !.credentialCalls = @ + 1]
    IN  /\ h.pc = "connect"
        /\ IF ok
           THEN Set(p, [called EXCEPT !.pc = IF h.endpoint = "test"
                                             THEN "test_list" ELSE "list1"])
           ELSE Set(p, [called EXCEPT !.pc = "done", !.status = "500",
                                      !.failed = TRUE])
        /\ UNCHANGED <<mailboxContent, msgLabels, labelExists, history, sendCalls,
                       runs>>

\* the answer of the endpoint: 'OK', 200 once process_new_messages (or the
\* process_message call of /test-pubsub) has returned, the error status
\* otherwise; "none" while the request is being handled
Response(h) ==
    IF h.pc # "done" THEN "none"
    ELSE IF h.status = "unset" THEN "200" ELSE h.status

RECURSIVE Reverse(_)
Reverse(q) == IF q = <<>> THEN <<>> ELSE Reverse(Tail(q)) \o <<Head(q)>>

\* messages.list(labelIds=['INBOX'], maxResults=5) of /test-pubsub, newest first
InboxList ==
    LET all == Reverse(SeqOfIds({id \in DOMAIN msgLabels :
                                    "INBOX" \in msgLabels[id] /\ ~IsReply(id)}))
    IN  SubSeq(all, 1, IF Len(all) < 5 THEN Len(all) ELSE 5)

\* /test-pubsub: list the inbox and call process_message on the most recent
\* message, with no check of its labels
TestList(p, ok) ==
    LET h == handler[p]
    IN  /\ h.pc = "test_list"
        /\ IF ~ok
           THEN Set(p, [h EXCEPT !.pc = "done", !.status = "500", !.failed = TRUE])
           ELSE IF InboxList = <<>>
           THEN Set(p, [h EXCEPT !.pc = "done"])
           ELSE Set(p, StartProcessMessage([h EXCEPT !.tier = 4], Head(InboxList)))
        /\ UNCHANGED <<mailboxContent, msgLabels, labelExists, history, sendCalls,
                       runs>>

\* tier 1: history.list(startHistoryId=history_id); any failure ends the run
\* tier 1 with a failure of history.list treated like an empty result
List1_FailureFallsThrough(p, ok) ==
    LET h == handler[p]
        records == IF ok THEN HistoryAfter(h.history_id) ELSE <<>>
    IN  /\ h.pc = "list1"
        /\ Set(p, Continue([h EXCEPT !.tier = 1, !.queue = AddedIds(records),
                                     !.added = AddedIds(records),
                                     !.tier1 = IF HasAdded(records) THEN "added"
                                               ELSE IF records = <<>> THEN "empty"
                                               ELSE "other",
                                     !.found_added = HasAdded(records),
                                     !.failed = ~ok,
                                     !.processed_ids = {}]))
        /\ UNCHANGED <<mailboxContent, msgLabels, labelExists, history, sendCalls,
                       runs>>

List1(p, ok) ==
    LET h == handler[p]
        records == HistoryAfter(h.history_id)
    IN  /\ h.pc = "list1"
        /\ IF ok
           THEN Set(p, Continue([h EXCEPT !.tier = 1, !.queue = AddedIds(records),
                                          !.added = AddedIds(records),
                                          !.tier1 = IF HasAdded(records) THEN "added"
                                                    ELSE IF records = <<>> THEN "empty"
                                                    ELSE "other",
                                          !.found_added = HasAdded(records),
                                          !.processed_ids = {}]))
           ELSE Set(p, [h EXCEPT !.pc = "done", !.failed = TRUE])
        /\ UNCHANGED <<mailboxContent, msgLabels, labelExists, history, sendCalls,
                       runs>>

\* tier 2: the retry with history_id - 1; a failure is caught and the backfill
\* scan follows.  found_added is not set by this tier.
List2(p, ok) ==
    LET h == handler[p]
    IN  /\ h.pc = "list2"
        /\ IF ok
           THEN Set(p, Continue([h EXCEPT !.tier = 2,
                                          !.queue = AddedIds(HistoryAfter(h.history_id - 1)),
                                          !.retry_added =
                                              HasAdded(HistoryAfter(h.history_id - 1)),
                                          !.processed_ids = {}]))
           ELSE Set(p, [h EXCEPT !.pc = "backfill_list", !.failed = TRUE])
        /\ UNCHANGED <<mailboxContent, msgLabels, labelExists, history, sendCalls,
                       runs>>

\* tier 3: messages.list(labelIds=['INBOX','UNREAD'], maxResults=10)
Backfill(p, ok) ==
    LET h == handler[p]
    IN  /\ h.pc = "backfill_list"
        /\ IF ok
           THEN Set(p, Continue([h EXCEPT !.tier = 3, !.queue = BackfillList]))
           ELSE Set(p, [h EXCEPT !.pc = "done", !.failed = TRUE])
        /\ UNCHANGED <<mailboxContent, msgLabels, labelExists, history, sendCalls,
                       runs>>

\* one candidate of the current tier: the duplicate check of the batch, the
\* metadata fetch and the label pre-filter
\* the candidate loop with a metadata failure ending the whole batch
Meta_AbortOnFailure(p, ok) ==
    LET h == handler[p]
        id == Head(h.queue)
        rest == [h EXCEPT !.queue = Tail(h.queue)]
        labels == msgLabels[id]
    IN  /\ h.pc = "meta"
        /\ IF h.tier \in {1, 2} /\ id \in h.processed_ids
           THEN ok /\ Set(p, Continue(rest))
           ELSE IF ~ok
           THEN Set(p, [rest EXCEPT !.pc = "done", !.failed = TRUE])
           ELSE IF h.tier \in {1, 2} /\ ~IncomingUnread(labels)
           THEN Set(p, Continue(rest))
           ELSE IF h.tier = 3 /\ labels \cap Excluded # {}
           THEN Set(p, Continue(rest))
           ELSE Set(p, StartProcessMessage(
                          [rest EXCEPT !.processed_ids =
                              IF h.tier = 3 THEN @ ELSE @ \cup {id}], id))
        /\ UNCHANGED <<mailboxContent, msgLabels, labelExists, history, sendCalls,
                       runs>>

Meta(p, ok) ==
    LET h == handler[p]
        id == Head(h.queue)
        rest == [h EXCEPT !.queue = Tail(h.queue)]
        labels == msgLabels[id]
    IN  /\ h.pc = "meta"
        /\ IF h.tier \in {1, 2} /\ id \in h.processed_ids
           THEN ok /\ Set(p, Continue(rest))
           ELSE IF ~ok
           THEN Set(p, Continue([rest EXCEPT !.failed = TRUE]))
           ELSE IF h.tier \in {1, 2} /\ ~IncomingUnread(labels)
           THEN Set(p, Continue(rest))
           ELSE IF h.tier = 3 /\ labels \cap Excluded # {}
           THEN Set(p, Continue(rest))
           ELSE Set(p, StartProcessMessage(
                          [rest EXCEPT !.processed_ids =
                              IF h.tier = 3 THEN @ ELSE @ \cup {id}], id))
        /\ UNCHANGED <<mailboxContent, msgLabels, labelExists, history, sendCalls,
                       runs>>

(***************************************************************************)
(* process_message.                                                        *)
(***************************************************************************)

\* normalize_email(email)
normalize_email(email) ==
    IF email = <<>> THEN <<>>
    ELSE IF Contains(<<"<">>, email) /\ Contains(<<">">>, email)
    THEN Strip(Lower(SplitFirst(">", SplitSecond("<", email))))
    ELSE Strip(Lower(email))

\* process_message, get_message and the two checks before the label check
PmGet(p, ok) ==
    LET h == handler[p]
        message == RawMessage(msgKind[h.msg_id])
        msg_labels == msgLabels[h.msg_id]
    IN  /\ h.pc = "pm_get"
        /\ IF ~ok
           THEN Set(p, Continue([h EXCEPT !.failed = TRUE]))
           ELSE IF msg_labels \cap Excluded # {}
           THEN Set(p, Continue([h EXCEPT !.chkExcluded = "no"]))
           ELSE IF ~is_email_recent(message.internalDate, Clock(now, 0))
           THEN Set(p, Continue([h EXCEPT !.chkExcluded = "yes", !.chkRecent = "no"]))
           ELSE Set(p, [h EXCEPT !.chkExcluded = "yes", !.chkRecent = "yes",
                                 !.pc = "hl_get"])
        /\ UNCHANGED <<mailboxContent, msgLabels, labelExists, history, sendCalls,
                       runs>>

\* process_message after the label check answered False: extract_email_data,
\* is_email_allowed, and on to the Directory lookup
AfterLabelCheck(h) ==
    LET email_data == KindData[msgKind[h.msg_id]]
        sender_email == SplitFirst(">", SplitLast("<", email_data.from))
    IN  IF ~KindVerdict[msgKind[h.msg_id]].allowed
        THEN Continue([h EXCEPT !.chkAllowed = "no"])
        ELSE [h EXCEPT !.chkAllowed = "yes",
                       !.pc = IF normalize_email(sender_email) = <<>>
                              THEN "generate" ELSE "directory"]

\* process_message without the return after a label check that answered True
LabelCheckDone_NoReturn(h, result) ==
    AfterLabelCheck([h EXCEPT !.chkLabel = IF result THEN "yes" ELSE "no"])

\* process_message from the result of has_auto_reply_label: return when the
\* message is labelled, go on otherwise
LabelCheckDone(h, result) ==
    IF result THEN Continue([h EXCEPT !.chkLabel = "yes"])
    ELSE AfterLabelCheck([h EXCEPT !.chkLabel = "no"])

\* has_auto_reply_label: messages.get; a failure makes the check answer False
HlGet(p, ok) ==
    LET h == handler[p]
        labelIds == msgLabels[h.msg_id]
    IN  /\ h.pc = "hl_get"
        /\ IF ~ok
           THEN Set(p, LabelCheckDone([h EXCEPT !.failed = TRUE], FALSE))
           ELSE IF AUTO_REPLY_LABEL \in labelIds
           THEN Set(p, LabelCheckDone(h, TRUE))
           ELSE Set(p, [h EXCEPT !.labelIds = labelIds, !.pc = "hl_list"])
        /\ UNCHANGED <<mailboxContent, msgLabels, labelExists, history, sendCalls,
                       runs>>

\* has_auto_reply_label: labels.list, then the check when the label exists
HlList(p, ok) ==
    LET h == handler[p]
    IN  /\ h.pc = "hl_list"
        /\ IF ~ok
           THEN Set(p, LabelCheckDone([h EXCEPT !.failed = TRUE], FALSE))
           ELSE IF labelExists
           THEN Set(p, LabelCheckDone(h, AutoLabelId \in h.labelIds))
           ELSE Set(p, [h EXCEPT !.pc = "hl_create"])
        /\ UNCHANGED <<mailboxContent, msgLabels, labelExists, history, sendCalls,
                       runs>>

\* has_auto_reply_label: labels.create (the mailbox refuses a name that exists)
HlCreate(p, ok) ==
    LET h == handler[p]
    IN  /\ h.pc = "hl_create"
        /\ IF ok /\ ~labelExists
           THEN /\ labelExists' = TRUE
                /\ Set(p, LabelCheckDone(h, AutoLabelId \in h.labelIds))
           ELSE /\ UNCHANGED labelExists
                /\ Set(p, LabelCheckDone([h EXCEPT !.failed = TRUE], FALSE))
        /\ UNCHANGED <<mailboxContent, msgLabels, history, sendCalls, runs>>

\* check_is_nasabah: the Directory lookup; it never raises
Directory(p, is_nasabah) ==
    LET h == handler[p]
    IN  /\ h.pc = "directory"
        /\ Set(p, [h EXCEPT !.directoryCalls = @ + 1, !.pc = "generate"])
        /\ UNCHANGED <<mailboxContent, msgLabels, labelExists, history, sendCalls,
                       runs>>

\* generate_ai_response: text, or None when every attempt failed
Generate(p, text) ==
    LET h == handler[p]
    IN  /\ h.pc = "generate"
        /\ Set(p, [h EXCEPT !.generatorCalls = @ + 1,
                            !.response_text = IF text THEN "text" ELSE "None",
                            !.failed = @ \/ ~text,
                            !.pc = "sr_scan"])
        /\ UNCHANGED <<mailboxContent, msgLabels, labelExists, history, sendCalls,
                       runs>>

(***************************************************************************)
(* send_reply and add_auto_reply_label.                                    *)
(***************************************************************************)

\* send_reply has returned; process_message goes on to add_auto_reply_label
\* whatever send_reply returned
SendReplyReturns(h, result) ==
    [h EXCEPT !.send_reply_result = result, !.pc = "al_list"]

\* a modify call that leaves the labels of the message as they were
LabelAdded_Dropped(id) == UNCHANGED <<msgLabels, history>>

\* a modify call that also marks the message read
LabelAdded_MarkRead(id) ==
    /\ msgLabels' = [msgLabels EXCEPT ![id] = (@ \cup {AutoLabelId}) \ {"UNREAD"}]
    /\ history' = Append(history, [kind |-> "labelsAdded", ids |-> <<id>>])

\* modify(addLabelIds=[label_id]) on message id: the mailbox after the call
LabelAdded(id) ==
    /\ msgLabels' = [msgLabels EXCEPT ![id] = @ \cup {AutoLabelId}]
    /\ history' = IF AutoLabelId \in msgLabels[id] THEN history
                  ELSE Append(history, [kind |-> "labelsAdded", ids |-> <<id>>])

\* the thread scan with a failure of threads.get counted as a reply found
ScanFindsReply_FailClosed(ok, t) == ~ok \/ ThreadHasAliasReply(t)

\* the thread scan of send_reply returns None: threads.get succeeded and a
\* message of the thread has the alias in From
ScanFindsReply(ok, t) == ok /\ ThreadHasAliasReply(t)

\* send_reply: the thread scan (a failure falls through to the send), then
\* composing the message (MIMEText raises on a None text)
SrScan(p, ok) ==
    LET h == handler[p]
    IN  /\ h.pc = "sr_scan"
        /\ IF ScanFindsReply(ok, ThreadOf(h.msg_id))
           THEN Set(p, SendReplyReturns([h EXCEPT !.failed = @ \/ ~ok], "None"))
           ELSE IF h.response_text = "None"
           THEN Set(p, SendReplyReturns([h EXCEPT !.failed = @ \/ ~ok], "None"))
           ELSE Set(p, [h EXCEPT !.failed = @ \/ ~ok, !.pc = "sr_send"])
        /\ UNCHANGED <<mailboxContent, msgLabels, labelExists, history, sendCalls,
                       runs>>

\* send_reply: messages.send into the thread of the original message
SrSend(p, ok) ==
    LET h == handler[p]
        b == Original(h.msg_id)
        sent == <<b[1], Cardinality(Replies(b)) + 1>>
        called == [h EXCEPT !.sends = @ + 1, !.runSends = @ + 1]
    IN  /\ h.pc = "sr_send"
        /\ sendCalls' = [sendCalls EXCEPT ![b] = @ + 1]
        /\ IF ok
           THEN /\ msgLabels' = [id \in DOMAIN msgLabels \cup {sent} |->
                                    IF id = sent THEN {"SENT"} ELSE msgLabels[id]]
                /\ history' = Append(history, [kind |-> "messagesAdded", ids |-> <<sent>>])
                /\ Set(p, [called EXCEPT !.sendOk = TRUE, !.sent_message = sent,
                                         !.pc = "sr_list"])
           ELSE /\ UNCHANGED <<msgLabels, history>>
                /\ Set(p, SendReplyReturns([called EXCEPT !.failed = TRUE], "None"))
        /\ UNCHANGED <<mailboxContent, labelExists, runs>>

\* labels.list of send_reply (sr) or of add_auto_reply_label (al)
ListLabels(p, ok) ==
    LET h == handler[p]
        next == IF ~labelExists
                THEN (IF h.pc = "sr_list" THEN "sr_create" ELSE "al_create")
                ELSE (IF h.pc = "sr_list" THEN "sr_modify" ELSE "al_modify")
    IN  /\ h.pc \in {"sr_list", "al_list"}
        /\ IF ok THEN Set(p, [h EXCEPT !.pc = next])
           ELSE IF h.pc = "sr_list"
           THEN Set(p, SendReplyReturns([h EXCEPT !.failed = TRUE], "None"))
           ELSE Set(p, Continue([h EXCEPT !.failed = TRUE]))
        /\ UNCHANGED <<mailboxContent, msgLabels, labelExists, history, sendCalls,
                       runs>>

\* labels.create of send_reply or of add_auto_reply_label
CreateLabel(p, ok) ==
    LET h == handler[p]
    IN  /\ h.pc \in {"sr_create", "al_create"}
        /\ IF ok /\ ~labelExists
           THEN /\ labelExists' = TRUE
                /\ Set(p, [h EXCEPT !.pc = IF h.pc = "sr_create"
                                           THEN "sr_modify" ELSE "al_modify"])
           ELSE /\ UNCHANGED labelExists
                /\ IF h.pc = "sr_create"
                   THEN Set(p, SendReplyReturns([h EXCEPT !.failed = TRUE], "None"))
                   ELSE Set(p, Continue([h EXCEPT !.failed = TRUE]))
        /\ UNCHANGED <<mailboxContent, msgLabels, history, sendCalls, runs>>

\* messages.modify of send_reply, after which it returns the sent id
SrModify(p, ok) ==
    LET h == handler[p]
    IN  /\ h.pc = "sr_modify"
        /\ IF ok
           THEN /\ LabelAdded(h.msg_id)
                /\ Set(p, SendReplyReturns(h, "sent"))
           ELSE /\ UNCHANGED <<msgLabels, history>>
                /\ Set(p, SendReplyReturns([h EXCEPT !.failed = TRUE], "None"))
        /\ UNCHANGED <<mailboxContent, labelExists, sendCalls, runs>>

\* messages.modify of add_auto_reply_label, which ends process_message
AlModify(p, ok) ==
    LET h == handler[p]
    IN  /\ h.pc = "al_modify"
        /\ IF ok
           THEN /\ LabelAdded(h.msg_id)
                /\ Set(p, Continue(h))
           ELSE /\ UNCHANGED <<msgLabels, history>>
                /\ Set(p, Continue([h EXCEPT !.failed = TRUE]))
        /\ UNCHANGED <<mailboxContent, labelExists, sendCalls, runs>>

(***************************************************************************)
(* Specification: handlers take notifications concurrently; every call to  *)
(* the Mailbox Service, the Directory Service or the Reply Generator is    *)
(* one step and may succeed or fail.                                       *)
(***************************************************************************)

\* historyIds a notification can carry: those the mailbox has issued so far
\* and the next two, for which history.list has nothing to return yet
HistoryIds == 1..(Len(history) + 2)

\* one step of handler p; ok is the outcome of the call the step makes
Step(p, ok) ==
    \/ Connect(p, ok)
    \/ TestList(p, ok)
    \/ List1(p, ok)
    \/ List2(p, ok)
    \/ Backfill(p, ok)
    \/ Meta(p, ok)
    \/ PmGet(p, ok)
    \/ HlGet(p, ok)
    \/ HlList(p, ok)
    \/ HlCreate(p, ok)
    \/ Generate(p, ok)
    \/ SrScan(p, ok)
    \/ SrSend(p, ok)
    \/ ListLabels(p, ok)
    \/ CreateLabel(p, ok)
    \/ SrModify(p, ok)
    \/ AlModify(p, ok)

\* notifications are handled one after the other; every call may fail
Next ==
    \/ \E p \in Handlers, hid \in HistoryIds :
          (\A q \in Handlers : ~Active(q)) /\ Start(p, hid) /\ UNCHANGED faults
    \/ \E p \in Handlers :
          (\A q \in Handlers : ~Active(q)) /\ TestStart(p) /\ UNCHANGED faults
    \/ \E p \in Handlers, ok \in BOOLEAN : Step(p, ok) /\ UNCHANGED faults
    \/ \E p \in Handlers, is_nasabah \in BOOLEAN :
          Directory(p, is_nasabah) /\ UNCHANGED faults

Spec == Init /\ [][Next]_vars

\* notifications are handled concurrently, one handler each; at most MaxFaults
\* calls fail
NextRace ==
    \/ \E p \in Handlers, hid \in HistoryIds : Start(p, hid) /\ UNCHANGED faults
    \/ \E p \in Handlers : TestStart(p) /\ UNCHANGED faults
    \/ \E p \in Handlers : Step(p, TRUE) /\ UNCHANGED faults
    \/ \E p \in Handlers :
          faults < MaxFaults /\ Step(p, FALSE) /\ faults' = faults + 1
    \/ \E p \in Handlers, is_nasabah \in BOOLEAN :
          Directory(p, is_nasabah) /\ UNCHANGED faults

SpecRace == Init /\ [][NextRace]_vars

\* the platform ends the request of handler p at its deadline, wherever the
\* handler stands; nothing of what it has done is undone
Cutoff(p) ==
    /\ Active(p)
    /\ Set(p, [handler[p] EXCEPT !.pc = "done", !.status = "504"])
    /\ UNCHANGED <<mailboxContent, msgLabels, labelExists, history, sendCalls,
                   runs>>

\* notifications are handled one after the other, no call fails, and a
\* handler may be cut off at any point
NextCut ==
    \/ \E p \in Handlers, hid \in HistoryIds :
          (\A q \in Handlers : ~Active(q)) /\ Start(p, hid) /\ UNCHANGED faults
    \/ \E p \in Handlers :
          (\A q \in Handlers : ~Active(q)) /\ TestStart(p) /\ UNCHANGED faults
    \/ \E p \in Handlers : Step(p, TRUE) /\ UNCHANGED faults
    \/ \E p \in Handlers, is_nasabah \in BOOLEAN :
          Directory(p, is_nasabah) /\ UNCHANGED faults
    \/ \E p \in Handlers : Cutoff(p) /\ UNCHANGED faults

SpecCut == Init /\ [][NextCut]_vars

\* every change of the mailbox is notified once: a notification carries the
\* historyId of a record (the record at position i has historyId i + 1), that
\* of a message arriving as well as that of the system's own sends and label
\* applications, and no historyId is notified twice
Notify(p, hid) ==
    /\ hid - 1 \in 1..Len(history)
    /\ \A i \in 1..Len(runs) : runs[i] # hid
    /\ Start(p, hid)

\* the notifications of the mailbox's changes are handled concurrently and no
\* call fails
NextLoop ==
    \/ \E p \in Handlers, hid \in HistoryIds : Notify(p, hid) /\ UNCHANGED faults
    \/ \E p \in Handlers : TestStart(p) /\ UNCHANGED faults
    \/ \E p \in Handlers : Step(p, TRUE) /\ UNCHANGED faults
    \/ \E p \in Handlers, is_nasabah \in BOOLEAN :
          Directory(p, is_nasabah) /\ UNCHANGED faults

SpecLoop == Init /\ [][NextLoop]_vars

(***************************************************************************)
(* Functions called on their own: the call is drawn at the start, and one  *)
(* step applies the function to it.                                        *)
(***************************************************************************)

\* send_reply composing a reply to the message of kind k, From sender
ComposeCalls ==
    {[fn |-> "compose", kind |-> k, sender |-> a] :
        k \in Kinds, a \in {ALLOWED_EMAIL_ADDRESS, PRIMARY_FROM}}

\* the shapes of a request body sent to /process: get_json() raises; an empty
\* or missing envelope; a non-empty envelope that is no dict; a dict without
\* 'message'; 'message' holding null; a message without 'data'; data that is
\* no base64 or no UTF-8; data that is no JSON; JSON that is no object; and
\* a well-formed notification
PushShapes ==
    {"no_json", "empty", "not_dict", "no_message", "message_null", "no_data",
     "bad_base64", "bad_json", "not_object", "ok"}

\* a field of the decoded notification: absent, present with an empty value
\* (null, "", 0), or present with a value
FieldStates == {"missing", "empty", "present"}

MaxHistoryValue == 2

Payload(shape, e, h, v) ==
    [shape |-> shape, emailAddress |-> e, historyId |-> h, value |-> v]

PushPayloads ==
    {Payload(sh, "missing", "missing", 0) : sh \in PushShapes \ {"ok"}}
    \cup {Payload("ok", e, h, IF h = "present" THEN v ELSE 0) :
             e \in FieldStates, h \in FieldStates, v \in 1..MaxHistoryValue}

\* what a request has caused when it is answered, or when it reaches the
\* credential retrieval ("continue")
Answered(status) ==
    [status |-> status, credentialCalls |-> 0, mailboxCalls |-> 0, history_id |-> 0]

Proceeds(payload) ==
    [status |-> "continue", credentialCalls |-> 1, mailboxCalls |-> 0,
     history_id |-> payload.value]

\* process_pubsub_push with the check of emailAddress and historyId left out
PushHead_FieldsUnchecked(payload) ==
    IF payload.shape \in {"no_json", "empty", "not_dict", "no_message", "no_data",
                          "bad_base64", "bad_json", "not_object"}
    THEN Answered("400")
    ELSE IF payload.shape = "message_null" THEN Answered("500")
    ELSE Proceeds(payload)

\* process_pubsub_push up to the credential retrieval (TEST_MODE off), in the
\* order of the code
PushHead(payload) ==
    IF payload.shape = "no_json" THEN Answered("400")
    ELSE IF payload.shape = "empty" THEN Answered("400")
    ELSE IF payload.shape \in {"not_dict", "no_message"} THEN Answered("400")
    \* 'data' not in None raises outside every try: the framework answers 500
    ELSE IF payload.shape = "message_null" THEN Answered("500")
    ELSE IF payload.shape = "no_data" THEN Answered("400")
    ELSE IF payload.shape \in {"bad_base64", "bad_json", "not_object"}
    THEN Answered("400")
    ELSE IF payload.emailAddress # "present" \/ payload.historyId # "present"
    THEN Answered("400")
    ELSE Proceeds(payload)

\* the events the Pub/Sub trigger of the cloud function receives: a dict
\* with or without 'data'
TriggerEvents ==
    {x \in PushPayloads :
        x.shape \in {"no_data", "bad_base64", "bad_json", "not_object", "ok"}}

\* validate_pubsub_message: both field names are keys of the data
validate_pubsub_message(data) ==
    data.emailAddress # "missing" /\ data.historyId # "missing"

\* pubsub_trigger up to the get_secret call of process_email
TriggerHead(event) ==
    IF event.shape = "no_data" THEN Answered("return")
    ELSE IF event.shape \in {"bad_base64", "bad_json"} THEN Answered("raise")
    ELSE IF event.shape = "not_object" THEN Answered("return")
    ELSE IF ~validate_pubsub_message(event) THEN Answered("return")
    ELSE Proceeds(event)

\* the payload cannot be decoded, or lacks emailAddress or historyId
Malformed(payload) ==
    \/ payload.shape # "ok"
    \/ payload.emailAddress = "missing"
    \/ payload.historyId = "missing"

PushCalls ==
    {[fn |-> "process_pubsub_push", payload |-> x] : x \in PushPayloads}
    \cup {[fn |-> "pubsub_trigger", payload |-> x] : x \in TriggerEvents}

\* the internalDate field of a message as the Mailbox Service delivers it:
\* absent, a string that is no number, or epoch milliseconds
RawDates ==
    {[present |-> FALSE, parses |-> TRUE, ms |-> 0],
     [present |-> TRUE, parses |-> FALSE, ms |-> 0]}
    \cup {[present |-> TRUE, parses |-> TRUE, ms |-> Now0 - MaxAgeMs + d] :
             d \in {-3600000, -2, -1, 0, 1, 2, 3600000, MaxAgeMs}}

\* int(message.get('internalDate', 0))
InternalDateOf(raw) ==
    IF ~raw.present THEN [parses |-> TRUE, ms |-> 0]
    ELSE [parses |-> raw.parses, ms |-> raw.ms]

\* the microseconds of datetime.now() within its millisecond
ClockMicros == {0, 1, 999}

RecentCalls ==
    {[fn |-> "is_email_recent", raw |-> r, clock |-> Clock(Now0, u)] :
        r \in RawDates, u \in ClockMicros}

\* what one generation call does: it yields text, it yields nothing but
\* whitespace, or it raises
Outcomes == {"text", "empty", "raise"}

\* fallback_models = [VERTEX_MODEL, 'gemini-1.5-flash', 'gemini-1.5-flash-002']
fallback_models == <<"VERTEX_MODEL", "gemini-1.5-flash", "gemini-1.5-flash-002">>

\* the fallback loop from model i on: the first non-empty text is returned;
\* an empty text or an exception moves on to the next model; after the last
\* model the function falls off its end and returns None
RECURSIVE FallbackLoop(_, _)
FallbackLoop(fb, i) ==
    IF i > Len(fallback_models) THEN "None"
    ELSE IF fb[i] = "text" THEN "text"
    ELSE FallbackLoop(fb, i + 1)

\* generate_ai_response: o.setup is whether vertexai.init, GenerativeModel
\* and start_chat succeed, o.stream the outcome of the streaming call, o.fb
\* the outcome of the call on each fallback model.  The value is "text" (the
\* generated text), "empty" (the empty string), "static" (the static fallback
\* reply) or "None".
generate_ai_response(o) ==
    IF ~o.setup THEN "static"
    ELSE IF o.stream = "text" THEN "text"
    ELSE IF o.stream = "empty" THEN "empty"
    ELSE FallbackLoop(o.fb, 1)

GenerateCalls ==
    {[fn |-> "generate_ai_response",
      o |-> [setup |-> su, stream |-> st, fb |-> f]] :
        su \in BOOLEAN, st \in Outcomes,
        f \in [1..Len(fallback_models) -> Outcomes]}

\* create_message(to, subject, body) of utils/gmail.py: the headers and the
\* payload of the MIMEText it encodes
create_message(to, subject, body) ==
    [to |-> to,
     subject |-> IF ~MatchAt(<<"R","e",":">>, subject, 1)
                 THEN S_RePrefix \o subject ELSE subject,
     body |-> body]

\* the subjects of the messages replied to
ReplySubjects ==
    {S_TanyaSaldo, S_ReTanyaSaldo, S_REUpperTanyaSaldo, S_ReRePromo, <<>>}

\* send_reply (auto_reply/main.py) composing the reply to an email_data, and
\* create_message (utils/gmail.py) composing one for a subject
SubjectCalls ==
    {[fn |-> "send_reply",
      email_data |-> [KindData["good"] EXCEPT !.subject = s],
      sender |-> a] :
        s \in ReplySubjects, a \in {ALLOWED_EMAIL_ADDRESS, PRIMARY_FROM}}
    \cup {[fn |-> "create_message", to |-> S_Budi, subject |-> s,
           body |-> S_Halo] : s \in ReplySubjects}

\* the positions of body that end a line for str.splitlines(): a "\n", or a
\* "\r" that no "\n" follows
LineEnds(body) ==
    {i \in 1..Len(body) :
        \/ body[i] = "\n"
        \/ body[i] = "\r" /\ ~(i < Len(body) /\ body[i + 1] = "\n")}

\* body.splitlines(): the text between the line ends, without them; text
\* after the last line end is a line of its own when it is not empty
splitlines(body) ==
    LET ends == LineEnds(body)
        StartOf(e) ==
            IF \E j \in ends : j < e
            THEN 1 + CHOOSE j \in ends : j < e /\ \A k \in ends : k < e => k <= j
            ELSE 1
        LineTo(e) ==
            SubSeq(body, StartOf(e),
                   IF body[e] = "\n" /\ e > 1 /\ body[e - 1] = "\r"
                      /\ StartOf(e) <= e - 1
                   THEN e - 2 ELSE e - 1)
        last == IF ends = {} THEN 0 ELSE CHOOSE j \in ends : \A k \in ends : k <= j
        RECURSIVE Upto(_)
        Upto(e) ==
            IF e = 0 THEN <<>>
            ELSE Append(Upto(StartOf(e) - 1), LineTo(e))
    IN  IF last = Len(body) THEN Upto(last)
        ELSE Append(Upto(last), SubSeq(body, last + 1, Len(body)))

\* '\n'.join(lines)
RECURSIVE JoinLines(_)
JoinLines(lines) ==
    IF lines = <<>> THEN <<>>
    ELSE IF Len(lines) = 1 THEN lines[1]
    ELSE lines[1] \o <<"\n">> \o JoinLines(Tail(lines))

\* text[:1500]
MaxStrippedChars == 1500

\* the loop of strip_quoted_text with a stop line skipped like a quoted one
RECURSIVE StripLoop_SkipStopLine(_, _, _)
StripLoop_SkipStopLine(lines, i, cleaned) ==
    IF i > Len(lines) THEN cleaned
    ELSE LET l == Strip(lines[i])
         IN  IF MatchAt(<<">">>, l, 1)
             THEN StripLoop_SkipStopLine(lines, i + 1, cleaned)
             ELSE IF MatchAt(<<"o","n"," ">>, Lower(l), 1)
                     /\ Contains(<<"w","r","o","t","e",":">>, Lower(l))
             THEN StripLoop_SkipStopLine(lines, i + 1, cleaned)
             ELSE IF Contains(S_ForwardedMarker, l)
             THEN StripLoop_SkipStopLine(lines, i + 1, cleaned)
             ELSE IF MatchAt(<<"F","r","o","m",":">>, l, 1) /\ Contains(<<"@">>, l)
             THEN StripLoop_SkipStopLine(lines, i + 1, cleaned)
             ELSE StripLoop_SkipStopLine(lines, i + 1, Append(cleaned, lines[i]))

\* the loop of strip_quoted_text from line i on: continue on a quoted line,
\* break on a stop line, else append the line as it is
RECURSIVE StripLoop(_, _, _)
StripLoop(lines, i, cleaned) ==
    IF i > Len(lines) THEN cleaned
    ELSE LET l == Strip(lines[i])
         IN  IF MatchAt(<<">">>, l, 1)
             THEN StripLoop(lines, i + 1, cleaned)
             ELSE IF MatchAt(<<"o","n"," ">>, Lower(l), 1)
                     /\ Contains(<<"w","r","o","t","e",":">>, Lower(l))
             THEN cleaned
             ELSE IF Contains(S_ForwardedMarker, l)
             THEN cleaned
             ELSE IF MatchAt(<<"F","r","o","m",":">>, l, 1) /\ Contains(<<"@">>, l)
             THEN cleaned
             ELSE StripLoop(lines, i + 1, Append(cleaned, lines[i]))

\* strip_quoted_text(body)
strip_quoted_text(body) ==
    IF body = <<>> THEN body
    ELSE LET text == Strip(JoinLines(StripLoop(splitlines(body), 1, <<>>)))
         IN  SubSeq(text, 1, IF Len(text) < MaxStrippedChars
                             THEN Len(text) ELSE MaxStrippedChars)

\* the lines the bodies given to strip_quoted_text are made of
BodyLines ==
    {S_ReplyText, S_QuotedLine, S_IndentedQuote, S_OnMonWrote, S_OldStuff,
     S_ForwardedMarker, S_QuotedForwardedMarker, S_FromLine, S_FromNoAddress,
     <<>>}

\* the example body: a reply, a quoted line, an attribution line, old text
ExampleBody ==
    JoinLines(<<S_ReplyText, S_QuotedLine, S_OnMonWrote, S_OldStuff>>)

\* the bodies: up to three lines joined by "\n", the example, a body with
\* "\r\n" line ends and a last line end, and bodies longer than the cap
StripCalls ==
    {[fn |-> "strip_quoted_text", body |-> b] :
        b \in {JoinLines(ls) :
                 ls \in UNION {[1..n -> BodyLines] : n \in 0..3}}
              \cup {ExampleBody,
                    S_ReplyText \o <<"\r","\n">> \o S_QuotedLine \o <<"\r","\n">>
                        \o S_OldStuff \o <<"\r","\n">>,
                    [i \in 1..(MaxStrippedChars + 7) |-> "a"],
                    [i \in 1..(MaxStrippedChars + 7) |->
                         IF i % 50 = 0 THEN "\n"
                         ELSE IF i > MaxStrippedChars - 3 THEN " " ELSE "b"]}}

\* the header fields of an email_data given to is_email_allowed
FilterHeaders ==
    {[auto_submitted |-> <<>>, precedence |-> <<>>],
     [auto_submitted |-> S_AutoReplied, precedence |-> <<>>],
     [auto_submitted |-> <<>>, precedence |-> S_Bulk]}

\* is_email_allowed called on an email_data, under a whitelist of domains
FilterCalls ==
    {[fn |-> "is_email_allowed",
      email_data |-> [subject |-> s, from |-> f, to |-> t, reply_to |-> f,
                      auto_submitted |-> hd.auto_submitted,
                      x_auto_response_suppress |-> <<>>,
                      precedence |-> hd.precedence,
                      x_autoreply |-> <<>>, x_autorespond |-> <<>>,
                      body |-> b],
      allowed_senders |-> w] :
        t \in {S_AliasMixedCase, S_Other, S_AliasAndBudi},
        f \in {S_Budi, ALLOWED_EMAIL_ADDRESS, S_NameMatch, S_AniGmail},
        s \in {S_TanyaSaldo, S_ReRePromo, S_ReFwdOutOfOffice, S_OutOfOffice, S_Winner},
        hd \in FilterHeaders,
        b \in {S_Halo, S_ClickHere},
        w \in {<<>>, <<S_GmailDomain>>}}

FnCalls ==
    ComposeCalls \cup PushCalls \cup RecentCalls \cup GenerateCalls \cup FilterCalls
    \cup SubjectCalls \cup StripCalls

\* the value the call returns
FnResult(c) ==
    CASE c.fn = "compose" ->
           \* the reply read back by extract_email_data and judged by
           \* is_email_allowed
           is_email_allowed(extract_email_data(
               ComposeReply(KindData[c.kind], c.sender, S_Halo)))
      [] c.fn = "process_pubsub_push" -> PushHead(c.payload)
      [] c.fn = "pubsub_trigger" -> TriggerHead(c.payload)
      [] c.fn = "is_email_recent" ->
           is_email_recent(InternalDateOf(c.raw), c.clock)
      [] c.fn = "generate_ai_response" -> generate_ai_response(c.o)
      [] c.fn = "is_email_allowed" ->
           is_email_allowed_for(c.email_data, c.allowed_senders)
      [] c.fn = "send_reply" ->
           extract_email_data(ComposeReply(c.email_data, c.sender, S_Halo))
      [] c.fn = "create_message" -> create_message(c.to, c.subject, c.body)
      [] c.fn = "strip_quoted_text" -> strip_quoted_text(c.body)

InitFn ==
    /\ msgKind = [b \in Inbound |-> "good"]
    /\ msgThread = [b \in Inbound |-> "t1"]
    /\ msgLabels = [b \in Inbound |-> InitialLabels("good")]
    /\ labelExists = FALSE
    /\ history = InitialHistory(1)
    /\ now = Now0
    /\ USE_PRIMARY_FROM = FALSE
    /\ sendCalls = [b \in Inbound |-> 0]
    /\ handler = [p \in Handlers |-> IdleHandler]
    /\ runs = <<>>
    /\ faults = 0
    /\ call \in FnCalls
    /\ ret = NoCall

\* the function is applied to the call
Apply ==
    /\ ret.fn = "none"
    /\ ret' = [fn |-> call.fn, value |-> FnResult(call)]
    /\ UNCHANGED <<msgKind, msgThread, msgLabels, labelExists, history, now,
                   USE_PRIMARY_FROM, sendCalls, handler, runs, faults, call>>

NextFn == Apply

SpecFn == InitFn /\ [][NextFn]_vars

(***************************************************************************)
(* retry_with_backoff(func, max_retries, base_delay) of utils/gmail.py.    *)
(* call holds the arguments: max_retries and what the successive calls of  *)
(* func do; ret holds the frame of the running call: pc, the loop variable *)
(* attempt, the calls of func and the sleeps so far in events, and the     *)
(* outcome once it has returned or raised.                                 *)
(***************************************************************************)

\* the default of max_retries, the largest value used here
MaxRetries == 3

\* what one call of func does: it returns, or raises ResourceExhausted, an
\* HttpError with the given status, or another exception
FuncOutcomes == {"ok", "ResourceExhausted", "429", "500", "503", "404", "ValueError"}

\* every error retried, whatever its kind
Retryable_Every(o) == o # "ok"

\* the errors the except clauses retry: ResourceExhausted, and an HttpError
\* whose status is 429, 500 or 503
Retryable(o) == o \in {"ResourceExhausted", "429", "500", "503"}

RetryCalls ==
    {[fn |-> "retry_with_backoff", max_retries |-> n, func |-> f] :
        n \in 0..MaxRetries, f \in [1..MaxRetries -> FuncOutcomes]}

InitRetry ==
    /\ msgKind = [b \in Inbound |-> "good"]
    /\ msgThread = [b \in Inbound |-> "t1"]
    /\ msgLabels = [b \in Inbound |-> InitialLabels("good")]
    /\ labelExists = FALSE
    /\ history = InitialHistory(1)
    /\ now = Now0
    /\ USE_PRIMARY_FROM = FALSE
    /\ sendCalls = [b \in Inbound |-> 0]
    /\ handler = [p \in Handlers |-> IdleHandler]
    /\ runs = <<>>
    /\ faults = 0
    /\ call \in RetryCalls
    /\ ret = [fn |-> "retry_with_backoff", pc |-> "for", attempt |-> 0,
              events |-> <<>>, outcome |-> "unset"]

\* for attempt in range(max_retries): the next iteration, or the end of the
\* loop and of the function, which then returns None
RetryFor ==
    /\ ret.pc = "for"
    /\ ret' = IF ret.attempt < call.max_retries
              THEN [ret EXCEPT !.pc = "try"]
              ELSE [ret EXCEPT !.pc = "returned", !.outcome = "None"]
    /\ UNCHANGED <<msgKind, msgThread, msgLabels, labelExists, history, now,
                   USE_PRIMARY_FROM, sendCalls, handler, runs, faults, call>>

\* return func(), and the except clauses
RetryTry ==
    /\ ret.pc = "try"
    /\ LET o == call.func[ret.attempt + 1]
           called == [ret EXCEPT !.events = Append(@, "func")]
       IN  ret' = IF o = "ok"
                  THEN [called EXCEPT !.pc = "returned", !.outcome = "ok"]
                  ELSE IF Retryable(o) /\ ret.attempt # call.max_retries - 1
                  THEN [called EXCEPT !.pc = "sleep"]
                  ELSE [called EXCEPT !.pc = "raised", !.outcome = o]
    /\ UNCHANGED <<msgKind, msgThread, msgLabels, labelExists, history, now,
                   USE_PRIMARY_FROM, sendCalls, handler, runs, faults, call>>

\* time.sleep(delay), then the next value of attempt
RetrySleep ==
    /\ ret.pc = "sleep"
    /\ ret' = [ret EXCEPT !.pc = "for", !.attempt = @ + 1,
                          !.events = Append(@, "sleep")]
    /\ UNCHANGED <<msgKind, msgThread, msgLabels, labelExists, history, now,
                   USE_PRIMARY_FROM, sendCalls, handler, runs, faults, call>>

NextRetry == RetryFor \/ RetryTry \/ RetrySleep

\* func and time.sleep return, so a step that can be taken is taken
SpecRetry == InitRetry /\ [][NextRetry]_vars /\ WF_vars(NextRetry)

(***************************************************************************)
(* Properties.                                                             *)
(***************************************************************************)

NotAddressedVerdict == Verdict(FALSE, "Email not sent to allowed address")

\* C1: whatever the interleaving of the process_message runs on one inbound
\* message, the Mailbox Service receives at most one send-message call for it.
C1_AtMostOneSendCall == \A b \in Inbound : sendCalls[b] <= 1

\* C2: two runs of process_new_messages for the same historyId, the second
\* started after the first ended, issue at most one send-message call for any
\* inbound message.
C2_TwoRunsOneSend ==
    (/\ Len(runs) = 2
     /\ runs[1] = runs[2]
     /\ runs[1] # 0
     /\ \A p \in Handlers : ~Active(p))
    => \A b \in Inbound : sendCalls[b] <= 1

\* C3: no send-message call is issued by a process_message run for a message
\* that carried the reply-marker label when the run started, whatever the read
\* calls of the label check and of the thread scan answer.
C3_NoSendForLabelled ==
    \A p \in Handlers : handler[p].sends > 0 => ~handler[p].labelledAtStart

\* C4: the reply-marker label is put on a message only by a process_message
\* run whose send-message call for that message succeeded; after a failed
\* send the labels of the message stay as they were.
C4_LabelOnlyAfterSend ==
    [][\A b \in Inbound :
          (AutoLabelId \notin msgLabels[b] /\ AutoLabelId \in msgLabels'[b])
          => \E p \in Handlers : handler[p].msg_id = b /\ handler[p].sendOk]_vars

\* C5: every send-message call of a process_message run comes after, in the
\* same run, the excluded-label check passed, is_email_recent answered true,
\* has_auto_reply_label answered false and is_email_allowed allowed.
C5_SendOnlyAfterChecks ==
    \A p \in Handlers :
        (handler[p].pc = "sr_send" \/ handler[p].sends > 0)
        => /\ handler[p].chkExcluded = "yes"
           /\ handler[p].chkRecent = "yes"
           /\ handler[p].chkLabel = "no"
           /\ handler[p].chkAllowed = "yes"
           /\ KindVerdict[msgKind[handler[p].msg_id]].allowed

C5_Witness == \E p \in Handlers : handler[p].sends > 0 /\ handler[p].sendOk

\* C6: once a send-message call for a message succeeded, no later run calls
\* the Reply Generator for that message, also when the label application
\* after that send failed.
C6_NoGenerationAfterSend ==
    [][\A p \in Handlers :
          handler'[p].generatorCalls > handler[p].generatorCalls
          => Replies(handler[p].msg_id) \subseteq
                 {<<b[1], 1>> : b \in RepliedAtStart}]_vars

\* C7: when the label check finds the reply-marker label, process_message
\* returns there: that run makes no Directory lookup, no Reply Generator call
\* and no send-message call.
C7_LabelledExits ==
    \A p \in Handlers :
        handler[p].chkLabel = "yes"
        => /\ handler[p].pc \in {"meta", "list2", "backfill_list", "done"}
           /\ handler[p].directoryCalls = 0
           /\ handler[p].generatorCalls = 0
           /\ handler[p].sends = 0

C7_Witness ==
    \E p \in Handlers : handler[p].chkLabel = "yes" /\ handler[p].pc = "done"

\* C8: a run whose history holds one 'message added' event, for a message that
\* was eligible when the run started (INBOX+UNREAD, recent, allowed by the
\* filter, unlabelled, no alias reply in its thread), and in which no call
\* failed, ends with exactly one send-message call, send_reply returning the
\* sent message id, and the message carrying the reply-marker label.
C8_HappyPath ==
    \A p \in Handlers, b \in Inbound :
        (/\ handler[p].pc = "done"
         /\ ~handler[p].failed
         /\ handler[p].added = <<b>>
         /\ b \in handler[p].eligibleAtStart)
        => /\ handler[p].runSends = 1
           /\ sendCalls[b] >= 1
           /\ handler[p].send_reply_result = "sent"
           /\ handler[p].sent_message \in Replies(b)
           /\ AutoLabelId \in msgLabels[b]

C8_Witness ==
    \E p \in Handlers, b \in Inbound :
        /\ handler[p].pc = "done"
        /\ ~handler[p].failed
        /\ handler[p].added = <<b>>
        /\ b \in handler[p].eligibleAtStart
        /\ handler[p].runSends = 1
        /\ handler[p].send_reply_result = "sent"

\* C9: send_reply issues no send-message call while has_auto_reply_label
\* reports the reply-marker label on the original message: in a run none of
\* whose calls failed, send_reply never reaches messages.send for a message
\* that carries the label.
C9_SendReplySkipsLabelled ==
    \A p \in Handlers :
        (handler[p].pc = "sr_send" /\ ~handler[p].failed)
        => AutoLabelId \notin msgLabels[handler[p].msg_id]

\* C10: a message whose To header does not contain the alias (case-insensitive)
\* gets the not-addressed verdict from is_email_allowed whatever its other
\* fields hold, and no send-message call is ever issued for it.
C10_NotAddressedNeverSent ==
    \A b \in Inbound :
        ~Contains(Lower(ALLOWED_EMAIL_ADDRESS), Lower(KindData[msgKind[b]].to))
        => /\ KindVerdict[msgKind[b]] = NotAddressedVerdict
           /\ sendCalls[b] = 0
           /\ \A p \in Handlers :
                 handler[p].msg_id = b => handler[p].chkAllowed # "yes"

C10_Witness ==
    \E p \in Handlers :
        /\ handler[p].msg_id \in Inbound
        /\ ~Contains(Lower(ALLOWED_EMAIL_ADDRESS),
                     Lower(KindData[msgKind[handler[p].msg_id]].to))
        /\ handler[p].chkAllowed = "no"
        /\ handler[p].pc = "done"

\* the kinds of message the loop-prevention rules are about: From holds the
\* system alias, or one of the outbound auto-reply headers is present
LoopKinds ==
    {k \in Kinds :
        LET d == KindData[k]
        IN  \/ Contains(Lower(ALLOWED_EMAIL_ADDRESS), Lower(d.from))
            \/ (d.auto_submitted # <<>> /\ Lower(d.auto_submitted) # S_No)
            \/ d.x_auto_response_suppress # <<>>
            \/ Lower(d.precedence) \in {Lower(S_Bulk), <<"a","u","t","o","_","r","e","p","l","y">>, <<"j","u","n","k">>}
            \/ d.x_autoreply # <<>>
            \/ d.x_autorespond # <<>>}

\* C11: a message whose From header is the system alias, or that carries an
\* outbound auto-reply header, never causes a send-message call, whatever
\* notifications arrive.
C11_LoopMessageNeverSent ==
    \A b \in Inbound : msgKind[b] \in LoopKinds => sendCalls[b] = 0

C11_Witness ==
    \E p \in Handlers :
        /\ handler[p].pc = "done"
        /\ handler[p].msg_id \in Inbound
        /\ msgKind[handler[p].msg_id] \in LoopKinds
        /\ AddressedToAlias(KindData[msgKind[handler[p].msg_id]])
        /\ handler[p].chkAllowed = "no"

\* C12: every message send_reply composes, read back through
\* extract_email_data and given to is_email_allowed, is denied, for every
\* recipient and subject and for both sending addresses.
C12_ComposedReplyDenied ==
    ret.fn = "compose" => ~ret.value.allowed

\* a reply addressed to the alias and sent From PRIMARY_FROM has been judged
C12_Witness ==
    /\ ret.fn = "compose"
    /\ call.sender = PRIMARY_FROM
    /\ Contains(Lower(ALLOWED_EMAIL_ADDRESS), Lower(KindData[call.kind].reply_to))
    /\ ret.value.reason = "Email is an automatic reply (auto-submitted header)"

\* C13: at the moment is_email_allowed is evaluated for a message, the message
\* carries INBOX and UNREAD and none of SENT, DRAFT, SPAM, TRASH, on every path
\* that reaches process_message.
C13_EvaluatedOnlyIncomingUnread ==
    [][\A p \in Handlers :
          (/\ handler[p].chkAllowed = "unset"
           /\ handler'[p].chkAllowed # "unset"
           /\ ~handler'[p].failed)
          => IncomingUnread(msgLabels[handler'[p].msg_id])]_vars

\* C14: a notification run in which no call failed and in which neither the
\* primary history.list nor the retry with historyId - 1 yielded a 'message
\* added' event has made the backfill messages.list call, and every message
\* that was eligible when the run started has been passed to process_message
\* and replied to by the run (a message sharing its thread with another one
\* stops being eligible once the other has been replied to, and is left out).
C14_BackfillReplies ==
    \A p \in Handlers :
        (/\ handler[p].pc = "done"
         /\ handler[p].endpoint = "process"
         /\ handler[p].status = "unset"
         /\ ~handler[p].failed
         /\ handler[p].tier1 \in {"empty", "other"}
         /\ ~handler[p].retry_added)
        => /\ handler[p].tier = 3
           /\ \A b \in handler[p].eligibleAtStart :
                 (\A c \in Inbound \ {b} : msgThread[c] # msgThread[b])
                 => /\ handler[p].runSends >= 1
                    /\ Replies(b) # {}
                    /\ sendCalls[b] >= 1

C14_Witness ==
    \E p \in Handlers, b \in Inbound :
        /\ handler[p].pc = "done"
        /\ ~handler[p].failed
        /\ handler[p].tier1 = "empty"
        /\ ~handler[p].retry_added
        /\ handler[p].tier = 3
        /\ b \in handler[p].eligibleAtStart
        /\ handler[p].sent_message \in Replies(b)

\* C15: the backfill messages.list call is made only when the retry with
\* historyId - 1 yielded nothing: a run whose retry surfaced a 'message
\* added' event never reaches the backfill call (stated for runs in which no
\* call has failed).
C15_NoBackfillAfterRetryFound ==
    \A p \in Handlers :
        (handler[p].pc = "backfill_list" /\ ~handler[p].failed)
        => ~handler[p].retry_added

\* C16: a notification whose history holds records but no 'message added'
\* event leads to no process_message call (as long as no call of the run has
\* failed) and to no send.
C16_OtherChangesIgnored ==
    \A p \in Handlers :
        handler[p].tier1 = "other"
        => /\ ~handler[p].failed => handler[p].msg_id = NoMsg
           /\ handler[p].runSends = 0

\* C17: a notification whose payload cannot be decoded, or that lacks
\* emailAddress or historyId, is answered before any credential retrieval and
\* before any Mailbox Service call, by /process and by the Pub/Sub trigger.
C17_MalformedRejectedEarly ==
    (ret.fn \in {"process_pubsub_push", "pubsub_trigger"}
     /\ Malformed(call.payload))
    => /\ ret.value.status # "continue"
       /\ ret.value.credentialCalls = 0
       /\ ret.value.mailboxCalls = 0

C17_Witness ==
    /\ ret.fn = "process_pubsub_push"
    /\ call.payload.shape = "ok"
    /\ call.payload.emailAddress = "present"
    /\ call.payload.historyId = "missing"
    /\ ret.value.status = "400"
    /\ ret.value.credentialCalls = 0

\* C18: for a structurally valid notification /process answers 500 when the
\* credentials or the service could not be obtained or the primary
\* history.list call failed (the run ended before its first tier, tier = 0),
\* and 200 otherwise.
C18_ServerErrorWhenUnreachable ==
    \A p \in Handlers :
        (handler[p].pc = "done" /\ handler[p].endpoint = "process")
        => Response(handler[p]) = IF handler[p].tier = 0 THEN "500" ELSE "200"

\* C19: with a maximum age of 24 hours is_email_recent accepts a message
\* dated now - 24h + 1ms, rejects one dated now - 24h - 1ms, accepts one lying
\* exactly on the cutoff, and rejects a missing or unparseable internalDate
\* (now being a whole number of milliseconds).
C19_AgeWindowInclusive ==
    (ret.fn = "is_email_recent" /\ call.clock.us = 0)
    => LET raw == call.raw
           dated(d) == raw.present /\ raw.parses
                       /\ raw.ms = call.clock.ms - 24 * 3600 * 1000 + d
       IN  /\ dated(1) => ret.value
           /\ dated(0) => ret.value
           /\ dated(-1) => ~ret.value
           /\ (~raw.present \/ ~raw.parses) => ~ret.value

C19_Witness ==
    /\ ret.fn = "is_email_recent"
    /\ call.clock.us = 0
    /\ call.raw.present /\ call.raw.parses
    /\ call.raw.ms = call.clock.ms - 24 * 3600 * 1000
    /\ ret.value

\* C20: for every combination of failing generation calls the reply
\* generator returns non-empty text: the generated text when a call yields
\* some, the static fallback reply otherwise; never None or the empty string
\* (stated for streaming calls that either yield text or raise).
C20_GeneratorNeverEmpty ==
    (ret.fn = "generate_ai_response" /\ call.o.stream # "empty")
    => LET o == call.o
           someText == o.setup /\ (\/ o.stream = "text"
                                    \/ \E i \in DOMAIN o.fb : o.fb[i] = "text")
       IN  ret.value = IF someText THEN "text" ELSE "static"


\* C21: once the system has sent a reply in a thread, a later send_reply call
\* for that thread whose thread scan succeeded (no call of the run has failed)
\* never reaches messages.send, whichever From address the reply was sent
\* with.
C21_ScanFindsEarlierReply ==
    \A p \in Handlers :
        (handler[p].pc = "sr_send" /\ ~handler[p].failed)
        => Replies(Original(handler[p].msg_id)) = {}


\* C22: when handlers can be cut off at any point of their batch and no call
\* fails, no inbound message ever gets a second reply sent: a message whose
\* send succeeded before the cut-off is not sent to again by a later
\* notification or backfill scan.
C22_NoSecondSendAfterCutoff ==
    \A b \in Inbound : Cardinality(Replies(b)) <= 1


\* C23: when messages.send succeeded, send_reply reports the reply as sent
\* (returns the sent message id, not None) whatever happens to the
\* labels.list, labels.create or messages.modify call that follows.
C23_SentReportedAfterLabelFailure ==
    \A p \in Handlers :
        (handler[p].sendOk /\ handler[p].send_reply_result # "unset")
        => handler[p].send_reply_result = "sent"


\* C24: the label check of the Duplicate-Reply Guard (messages.get,
\* labels.list and the lazy labels.create) is made only for a message that
\* is_email_allowed accepts: a handler none of whose calls failed never stands
\* before labels.list or labels.create of has_auto_reply_label with a message
\* the filter rejects.
C24_LabelCheckAfterFilter ==
    \A p \in Handlers :
        (handler[p].pc \in {"hl_list", "hl_create"} /\ ~handler[p].failed)
        => KindVerdict[msgKind[handler[p].msg_id]].allowed


\* C25: the history.list call with history_id - 1 is made if and only if the
\* primary history.list call succeeded and yielded no 'message added' event,
\* and at most once per notification: the retry is entered only from the
\* primary call, which is entered only once, from the connection step.
C25_RetryIffPrimaryEmpty ==
    [][\A p \in Handlers :
          LET h == handler[p]
              h2 == handler'[p]
          IN  /\ (h.pc # "list2" /\ h2.pc = "list2")
                 => (h.pc = "list1" /\ h2.tier1 \in {"empty", "other"})
              /\ (h.pc = "list1" /\ h2.pc # "list1")
                 => (h2.pc = "list2" <=> h2.tier1 \in {"empty", "other"})
              /\ (h.pc # "list1" /\ h2.pc = "list1") => h.pc = "connect"]_vars

C25_Witness ==
    \E p \in Handlers :
        /\ handler[p].pc = "list2"
        /\ handler[p].tier = 1
        /\ handler[p].tier1 \in {"empty", "other"}
        /\ ~handler[p].failed


\* C26: a failure of the primary history.list call ends process_new_messages
\* at once: the handler is done with no retry, no backfill scan and no
\* message processed, and the mailbox is as it was.  A failure of the retry
\* leads on to the backfill scan, and a failure of the backfill list call
\* lets the handler complete normally.
C26_PrimaryFailureAborts ==
    [][\A p \in Handlers :
          LET h == handler[p]
              h2 == handler'[p]
          IN  /\ (h.pc = "list1" /\ h2.pc # "list1" /\ h2.failed)
                 => /\ h2.pc = "done"
                    /\ h2.tier = 0 /\ h2.msg_id = NoMsg /\ h2.runSends = 0
                    /\ UNCHANGED <<msgLabels, labelExists, history, sendCalls>>
              /\ (h.pc = "list2" /\ h2.pc # "list2" /\ h2.tier = 1)
                 => h2.pc = "backfill_list"
              /\ (h.pc = "backfill_list" /\ h2.pc # "backfill_list" /\ h2.tier # 3)
                 => (h2.pc = "done" /\ h2.status = "unset")]_vars

C26_Witness ==
    \E p \in Handlers :
        /\ handler[p].pc = "done"
        /\ handler[p].endpoint = "process"
        /\ handler[p].credentialCalls = 1
        /\ handler[p].status = "unset"
        /\ handler[p].tier = 0
        /\ handler[p].failed
        /\ EligibleNow # {}


\* C27: within one notification the candidates are taken one at a time in the
\* order the history (or the backfill list) returned them, and whatever fails
\* for one candidate the loop goes on: a handler that ended normally has no
\* candidate left in its batch, and the batch only ever shrinks by its head,
\* which is the message processed next.
C27_BatchSurvivesFailures ==
    /\ [](\A p \in Handlers :
            (handler[p].pc = "done" /\ handler[p].status = "unset")
            => handler[p].queue = <<>>)
    /\ [][\A p \in Handlers :
            LET h == handler[p]
                h2 == handler'[p]
            IN  /\ (h.pc \notin {"idle", "done", "connect", "test_list", "list1",
                                 "list2", "backfill_list"}
                    /\ h2.queue # h.queue)
                   => (h.pc = "meta" /\ h2.queue = Tail(h.queue))
                /\ (h.pc \notin {"idle", "done", "connect", "test_list"}
                    /\ h2.msg_id # h.msg_id)
                   => (h.pc = "meta" /\ h2.msg_id = Head(h.queue))]_vars

C27_Witness ==
    \E p \in Handlers :
        /\ handler[p].pc = "meta"
        /\ handler[p].failed
        /\ Len(handler[p].added) = 2
        /\ Len(handler[p].queue) = 1


\* C28: when the threads.get call of the thread scan fails, send_reply goes on
\* to messages.send (the reply text being there); when messages.send fails,
\* send_reply returns None at once, with no label call of its own and the
\* mailbox as it was.
C28_ScanFailureFallsThrough ==
    [][\A p \in Handlers :
          LET h == handler[p]
              h2 == handler'[p]
          IN  /\ (h.pc = "sr_scan" /\ ~h.failed /\ h2.failed
                  /\ h.response_text = "text")
                 => h2.pc = "sr_send"
              /\ (h.pc = "sr_send" /\ h2.pc # "sr_send" /\ ~h2.sendOk)
                 => /\ h2.send_reply_result = "None"
                    /\ h2.pc = "al_list"
                    /\ UNCHANGED <<msgLabels, labelExists, history>>]_vars

C28_Witness ==
    \E p \in Handlers :
        /\ handler[p].pc = "al_list"
        /\ handler[p].sends = 1
        /\ ~handler[p].sendOk
        /\ handler[p].send_reply_result = "None"
        /\ ThreadHasAliasReply(ThreadOf(handler[p].msg_id))


\* C29: no step removes a label from a message: every message keeps its
\* labels, the only label a step adds to an existing message is the
\* reply-marker label, and it is added to an inbound message, never to a
\* reply.
C29_LabelsOnlyGrow ==
    [][\A id \in DOMAIN msgLabels :
          /\ id \in DOMAIN msgLabels'
          /\ msgLabels[id] \subseteq msgLabels'[id]
          /\ msgLabels'[id] \ msgLabels[id] \subseteq {AutoLabelId}
          /\ msgLabels'[id] # msgLabels[id] => id \in Inbound]_vars

C29_Witness ==
    \E b \in Inbound :
        /\ AutoLabelId \in msgLabels[b]
        /\ b \notin RepliedAtStart
        /\ {"INBOX", "UNREAD"} \subseteq msgLabels[b]


\* C30: is_email_allowed takes its rules in the order addressing, From contains
\* the alias, display-name match, sender equals recipient, reply markers in
\* the Subject, auto-reply headers, content phrases, domain whitelist, spam
\* keywords: the email is allowed exactly when no rule rejects it, and the
\* reason reported is the one of the earliest rule that rejects it.
C30_FirstFailingRuleDecides ==
    ret.fn = "is_email_allowed" =>
        /\ ret.value = VerdictInOrder([i \in 1..RuleCount |-> i],
                                      call.email_data, call.allowed_senders)
        /\ ret.value.allowed <=>
               ~\E i \in 1..RuleCount :
                     RuleFails(i, call.email_data, call.allowed_senders)

\* C30 witness: an email that the reply-marker rule, the content rule and the
\* spam rule all reject is reported with the reason of the reply-marker rule
C30_Witness ==
    /\ ret.fn = "is_email_allowed"
    /\ {i \in 1..RuleCount :
            RuleFails(i, call.email_data, call.allowed_senders)} = {5, 7, 9}
    /\ ret.value = Verdict(FALSE, "Email has multiple reply indicators in subject")


\* C31: the subject of the reply send_reply composes is the subject of the
\* original with 'Re: ' put before it, unless the original subject already
\* starts with 'Re:', and then it is the original subject unchanged.
C31_ReplySubjectPrefixedOnce ==
    (/\ ret.fn = "send_reply"
     /\ is_email_allowed(call.email_data).allowed)
    => ret.value.subject =
           IF MatchAt(<<"R","e",":">>, call.email_data.subject, 1)
           THEN call.email_data.subject
           ELSE S_RePrefix \o call.email_data.subject


\* C32: retry_with_backoff calls func at most max_retries times and ends; it
\* returns at the first call of func that succeeds, sleeps exactly once
\* between two consecutive calls (the earlier having raised a retryable
\* error), raises a non-retryable error at once, and raises the retryable
\* error of the max_retries-th call.
C32_BoundedRetry ==
    /\ <>(ret.pc \in {"returned", "raised"})
    /\ [](LET retried == {"ResourceExhausted", "429", "500", "503"}
              calls == {i \in 1..Len(ret.events) : ret.events[i] = "func"}
              n == Cardinality(calls)
          IN  /\ n <= call.max_retries
              /\ \A i \in 1..Len(ret.events) :
                     ret.events[i] = IF i % 2 = 1 THEN "func" ELSE "sleep"
              /\ \A k \in 1..n :
                     k < n => call.func[k] \in retried
              /\ ret.pc = "returned" /\ n > 0 =>
                     /\ call.func[n] = "ok" /\ ret.outcome = "ok"
                     /\ Len(ret.events) = 2 * n - 1
              /\ ret.pc = "raised" =>
                     /\ ret.outcome = call.func[n] /\ ret.outcome # "ok"
                     /\ Len(ret.events) = 2 * n - 1
                     /\ ret.outcome \in retried => n = call.max_retries
              /\ ret.pc \in {"for", "try", "sleep"} /\ n > 0 =>
                     call.func[n] \in retried /\ n < call.max_retries)

\* C32 witness: three calls of func, each raising a retryable error, with two
\* sleeps between them; the last error is raised
C32_Witness ==
    /\ ret.fn = "retry_with_backoff"
    /\ ret.pc = "raised"
    /\ ret.events = <<"func", "sleep", "func", "sleep", "func">>
    /\ ret.outcome = "503"
    /\ call.max_retries = MaxRetries


\* C33: strip_quoted_text returns the lines of the body that come before the
\* first stop line (one that, trimmed, starts with 'on ' and contains
\* 'wrote:' in any case, contains the forwarded-message marker, or starts
\* with 'From:' and contains '@'), without the lines that, trimmed, start
\* with '>', joined, trimmed and cut to 1500 characters; the example body
\* gives exactly 'Reply text'.
C33_QuotedTextStripped ==
    ret.fn = "strip_quoted_text" =>
        LET lines == splitlines(call.body)
            Quoted(line) == Strip(line) # <<>> /\ Head(Strip(line)) = ">"
            Stop(line) ==
                LET l == Strip(line)
                IN  /\ ~Quoted(line)
                    /\ \/ /\ Len(l) >= 3
                          /\ Lower(SubSeq(l, 1, 3)) = <<"o","n"," ">>
                          /\ Contains(<<"w","r","o","t","e",":">>, Lower(l))
                       \/ Contains(S_ForwardedMarker, l)
                       \/ /\ Len(l) >= 5
                          /\ SubSeq(l, 1, 5) = <<"F","r","o","m",":">>
                          /\ \E k \in 1..Len(l) : l[k] = "@"
            stops == {i \in 1..Len(lines) : Stop(lines[i])}
            before == IF stops = {} THEN Len(lines)
                      ELSE (CHOOSE i \in stops : \A j \in stops : i <= j) - 1
            Kept(line) == ~Quoted(line)
            text == Strip(JoinLines(SelectSeq(SubSeq(lines, 1, before), Kept)))
        IN  /\ Len(ret.value) <= 1500
            /\ Len(ret.value) <= Len(text)
            /\ \A k \in 1..Len(ret.value) :
                   k <= Len(text) /\ ret.value[k] = text[k]
            /\ Len(ret.value) < 1500 => ret.value = text
            /\ call.body = ExampleBody => ret.value = S_ReplyText

\* C33 witness: the example body has been stripped to 'Reply text'
C33_Witness ==
    /\ ret.fn = "strip_quoted_text"
    /\ call.body = ExampleBody
    /\ ret.value = S_ReplyText


\* C36: within one process_new_messages invocation process_message is called
\* at most once for each message id, over the primary history tier, the retry
\* with historyId - 1 and the backfill scan together (stated for invocations
\* in which no call has failed).
C36_ProcessedOncePerInvocation ==
    \A p \in Handlers :
        (handler[p].endpoint = "process" /\ ~handler[p].failed)
        => \A i, j \in 1..Len(handler[p].pmCalls) :
               i # j => handler[p].pmCalls[i] # handler[p].pmCalls[j]


\* C35: with handlers running concurrently and no call failing on its own,
\* the list-then-create sequence is a create-or-fetch: a labels.create call
\* is issued only while the label does not exist (so at most one is ever
\* issued), and the handler issuing it does not fail its label check or its
\* label application.
C35_CreateOrFetch ==
    [][\A p \in Handlers :
          (/\ handler[p].pc \in {"hl_create", "sr_create", "al_create"}
           /\ handler'[p].pc # handler[p].pc
           /\ faults = 0 /\ faults' = 0)
          => /\ ~labelExists
             /\ handler'[p].failed = handler[p].failed]_vars


\* C34: with every change of the mailbox notified, the system's own sends and
\* label applications included, the number of messages.send calls never
\* exceeds the number of inbound messages (stated for behaviours made of
\* notifications only, in which no call fails).
C34_NoReplyLoop ==
    (\A i \in 1..Len(runs) : runs[i] # 0)
    => SumTo([i \in 1..MaxInbound |-> sendCalls[<<InboundNames[i], 0>>]],
             MaxInbound) <= Cardinality(Inbound)

====
